---- MODULE Spec2Model ----
(***************************************************************************)
(* Model of the rule-based opinion tools of architecture_domain_ans:       *)
(*   sugerir_parecer   (tools/sugerir_parecer.py)                          *)
(*   registrar_parecer (tools/registrar_parecer.py) with the repository    *)
(*                     factory and the mock repository behind it           *)
(*   integrar_onetrust, consultar_cmdb, carregar_insumos,                  *)
(*   carregar_ressalvas, capturar_vencimento with the record stores of     *)
(*                     mock/mock_data.py and the repository factories      *)
(*   root_agent        (agent.py): a session calling the seven tools       *)
(*   concurrent callers of the tools                                       *)
(*   the four repository factories called in sequence (adapters)           *)
(*   validate_file_security of the partner-evaluation service              *)
(*   ThoughtSignatureHandler.execute_reasoning_turn (reasoning_handler.py) *)
(*                                                                         *)
(* Strings are the program's own.                                          *)
(***************************************************************************)
EXTENDS Integers, Sequences, FiniteSets, TLC

VARIABLES
    ultimo_parecer,    \* the stored prior opinion the caller copied parecer_anterior from
    dados_requisicao,  \* sugerir_parecer: the request bundle passed in
    resultado,         \* sugerir_parecer: what the call produced ("pendente" before)
    dados_completos,   \* registrar_parecer: the dict passed in
    registro,          \* registrar_parecer: what the call produced ("pendente" before)
    USE_MOCK,          \* the environment variable read by the repository factory
    parecer_repo,      \* adapters._parecer_repo, the cached repository
    save_calls,        \* the records handed to ParecerRepository.save, in order
    ONETRUST_DATABASE,    \* mock_data: tax ID -> contract record
    CMDB_DATABASE,        \* mock_data: service ID -> catalog record
    HISTORICO_PARECERES,  \* mock_data: tax ID -> list of prior opinions
    onetrust_repo,     \* adapters._onetrust_repo
    cmdb_repo,         \* adapters._cmdb_repo
    historico_repo,    \* adapters._historico_repo
    chamada,           \* the last tool call: the tool, its arguments, what its environment did
    retorno,           \* what that call produced
    repo_args,         \* the arguments that reached the repository during that call
    requisicao,        \* root_agent: the request the session is about
    fluxo,             \* root_agent: the tool calls of the session and their results, in order
    threads,           \* concurrent callers: each one's call, position in it and locals
    handler            \* ThoughtSignatureHandler: its session and the position of a reasoning turn

varsSugerir == <<ultimo_parecer, dados_requisicao, resultado>>
varsRegistrar == <<dados_completos, registro, USE_MOCK, parecer_repo, save_calls>>
varsStores == <<ONETRUST_DATABASE, CMDB_DATABASE, HISTORICO_PARECERES>>
varsConsulta == <<ONETRUST_DATABASE, CMDB_DATABASE, HISTORICO_PARECERES,
                  onetrust_repo, cmdb_repo, historico_repo, chamada, retorno, repo_args>>
vars == <<ultimo_parecer, dados_requisicao, resultado,
          dados_completos, registro, USE_MOCK, parecer_repo, save_calls,
          ONETRUST_DATABASE, CMDB_DATABASE, HISTORICO_PARECERES,
          onetrust_repo, cmdb_repo, historico_repo, chamada, retorno, repo_args,
          requisicao, fluxo, threads, handler>>
varsAgente == <<requisicao, fluxo>>

\* Python's None, and the marker of a call that has not happened yet.
None == "None"
Pendente == [estado |-> "pendente"]
\* no ThoughtSignatureHandler was built
SemHandler == [pc |-> "ausente"]

(***************************************************************************)
(* Bounds of the model.                                                    *)
(***************************************************************************)
\* longest integration list a bundle carries
MaxIntegracoes == 3
\* most tool calls the agent makes for one request
MaxChamadas == 3
\* callers that run tools at the same time
NumChamadores == 2

(***************************************************************************)
(* IEEE-754 binary64 arithmetic of `score`.                                *)
(*                                                                         *)
(* Every literal of the function is a multiple of 1/100 once rounded to    *)
(* decimal, and every double it can hold is a multiple of 2^-57 below 2.   *)
(* A double x is held exactly as [c, r] with                               *)
(*        x = c/100 + r / (100 * 2^57)                                     *)
(* c the nearest hundredth and r the (small) distance to it.  E.g.         *)
(* float.hex(0.1) = 0x1.999999999999ap-4 = 0.1 + 0.8 * 2^-57 = [10, 80].   *)
(***************************************************************************)
Dbl(c, r) == [c |-> c, r |-> r]

\* the float literals of sugerir_parecer.py
F_0_5  == Dbl(50, 0)       \* 0x1.0000000000000p-1
F_0_3  == Dbl(30, -160)    \* 0x1.3333333333333p-2
F_0_15 == Dbl(15, -80)     \* 0x1.3333333333333p-3
F_0_2  == Dbl(20, 160)     \* 0x1.999999999999ap-3
F_0_1  == Dbl(10, 80)      \* 0x1.999999999999ap-4
F_0_05 == Dbl(5, 40)       \* 0x1.999999999999ap-5
F_0_8  == Dbl(80, 640)     \* 0x1.999999999999ap-1

RECURSIVE Pow2(_)
Pow2(k) == IF k = 0 THEN 1 ELSE 2 * Pow2(k - 1)

\* 2^k modulo 200, without ever forming 2^k
RECURSIVE Pow2Mod200(_)
Pow2Mod200(k) == IF k = 0 THEN 1 ELSE (2 * Pow2Mod200(k - 1)) % 200

FNeg(x) == Dbl(-x.c, -x.r)
FIsNeg(x) == x.c < 0 \/ (x.c = 0 /\ x.r < 0)

\* x >= y on doubles
FGe(x, y) == x.c > y.c \/ (x.c = y.c /\ x.r >= y.r)

\* Binary exponent E of a non-negative value below 2: 2^E <= x < 2^(E+1),
\* cut off at -5, from where on every multiple of 2^-57 is representable.
Expoente(x) ==
    IF FGe(x, Dbl(100, 0)) THEN 0
    ELSE IF FGe(x, Dbl(50, 0)) THEN -1
    ELSE IF FGe(x, Dbl(25, 0)) THEN -2
    ELSE IF x.c >= 13 THEN -3      \* 0.125
    ELSE IF x.c >= 7 THEN -4       \* 0.0625
    ELSE -5

\* Round a non-negative exact value to the nearest double, ties to even.
\* ulp = 2^(E-52) = q * 2^-57 with q = 2^(E+5); in units of 1/(100*2^57)
\* the value is c*2^57 + r and the ulp is L = 100*q.
RoundMag(x) ==
    LET E    == Expoente(x)
        q    == Pow2(E + 5)
        L    == 100 * q
        m    == (q * ((x.c * Pow2Mod200(52 - E)) % 200) + x.r + 2 * L) % (2 * L)
        rem  == m % L
        odd  == m >= L
        up   == (2 * rem > L) \/ (2 * rem = L /\ odd)
    IN  IF rem = 0 THEN x
        ELSE IF up THEN Dbl(x.c, x.r + (L - rem))
        ELSE Dbl(x.c, x.r - rem)

RoundNearestEven(x) == IF FIsNeg(x) THEN FNeg(RoundMag(FNeg(x))) ELSE RoundMag(x)

\* x + y and x - y as the hardware computes them
FAdd(x, y) == RoundNearestEven(Dbl(x.c + y.c, x.r + y.r))
FSub(x, y) == FAdd(x, FNeg(y))

\* round(score, 2) and the {score:.2f} format: the nearest hundredth,
\* as a count of hundredths
Round2(x) == x.c

(***************************************************************************)
(* Domains of the request bundle (models.py enums and the literals the     *)
(* function compares against).                                             *)
(***************************************************************************)
TipoRequisicao == {"Renovação", "Nova Contratação"}
TipoParecer == {"Parecer Favorável", "Parecer Favorável com Ressalvas", "Parecer Desfavorável"}
Direcionador == {"Evoluir", "Manter", "Desinvestir"}
\* upper-case spellings the function tests for, and the FluxoDados enum values
FluxoLabels == {"INBOUND", "OUTBOUND", "BIDIRECIONAL", "Inbound", "Outbound", "Bidirecional"}

\* str.upper() on the labels of the model
Upper(s) ==
    CASE s = "rest" -> "REST"
      [] s = "Inbound" -> "INBOUND"
      [] s = "Outbound" -> "OUTBOUND"
      [] s = "Bidirecional" -> "BIDIRECIONAL"
      [] OTHER -> s

\* str.lower() on the labels of the model
Lower(s) ==
    CASE s = "Renovação" -> "renovação"
      [] s = "TRUE" -> "true"
      [] s = "Nova Contratação" -> "nova contratação"
      [] s = "INBOUND" -> "inbound"
      [] s = "OUTBOUND" -> "outbound"
      [] s = "Inbound" -> "inbound"
      [] s = "Outbound" -> "outbound"
      [] OTHER -> s

\* caveat strings a stored prior opinion carries
RessalvaAnterior1 == "Documentação deve ser atualizada trimestralmente"
RessalvaAnterior2 == "SLA deve ser revisado após 6 meses"

\* caveats the function itself writes
RessalvaDesinvestir == "Serviço está marcado como 'Desinvestir' no CMDB. Avaliar necessidade de contratação/renovação considerando descontinuação futura."
RessalvaLGPD == "Fornecedor armazena dados do Banco BV em sua infraestrutura. Verificar conformidade com políticas de segurança e LGPD."
RessalvaMonitorar == "Monitorar evolução do serviço conforme roadmap tecnológico"
RessalvaAnaliseAdicional == "Requisição requer análise adicional antes de aprovação"

\* The integration lists of the model: every set of at most MaxIntegracoes
\* labels, listed in the order of LabelOrder.
LabelOrder == <<"REST", "rest", "WEBHOOK", "MENSAGERIA", "SOAP">>

\* the indices that may follow index list l
Maiores(l) == {j \in 1..Len(LabelOrder) : \A x \in 1..Len(l) : l[x] < j}

\* the index lists of length at most n, strictly increasing
RECURSIVE ListasDe(_)
ListasDe(n) ==
    IF n = 0 THEN {<<>>}
    ELSE ListasDe(n - 1) \cup
         UNION {{Append(l, k) : k \in Maiores(l)} :
                    l \in {m \in ListasDe(n - 1) : Len(m) = n - 1}}

Integracoes ==
    {[x \in 1..Len(l) |-> LabelOrder[l[x]]] : l \in ListasDe(MaxIntegracoes)}

\* The stored prior opinion (ParecerAnterior, models.py): its type and its
\* caveat list; SemParecer when the history holds none.
SemParecer == [existe |-> FALSE]
ParecerArmazenado(t, rs) == [existe |-> TRUE, tipo_parecer |-> t, ressalvas |-> rs]
ParecerAnteriores ==
    {ParecerArmazenado("Parecer Favorável", <<>>),
     ParecerArmazenado("Parecer Favorável com Ressalvas", <<>>),
     ParecerArmazenado("Parecer Favorável com Ressalvas", <<RessalvaAnterior1, RessalvaAnterior2>>),
     ParecerArmazenado("Parecer Desfavorável", <<>>)}

\* parecer_anterior as the bundle carries it: None, the bare opinion-type
\* string, or the prior-opinion record as a dict
PaNone == [forma |-> "None"]
PaStr(t) == [forma |-> "str", valor |-> t]
PaDict(t, rs) == [forma |-> "dict", tipo_parecer |-> t, ressalvas |-> rs]

\* the forms in which a caller hands a stored prior opinion to the function
FormasDe(p) ==
    IF p.existe
    THEN {PaStr(p.tipo_parecer), PaDict(p.tipo_parecer, p.ressalvas)}
    ELSE {PaNone}

\* isinstance(parecer_anterior, dict)
IsDict(v) == v.forma = "dict"
\* truth value of parecer_anterior: None and {} are false
Truthy(v) == v.forma # "None"

Bundle(t, i, f, d, p, a) ==
    [tipo_requisicao |-> t, integracoes_disponiveis |-> i, fluxo_dados |-> f,
     direcionador |-> d, parecer_anterior |-> p, armazena_dados_bv |-> a]

(***************************************************************************)
(* sugerir_parecer(dados_requisicao)                                       *)
(***************************************************************************)
\* Inicial with the caveat list kept between calls instead of created anew
Inicial_ListaCompartilhada ==
    [score |-> F_0_5, criterios_aplicados |-> <<>>,
     ressalvas |-> IF resultado.estado = "returned" THEN resultado.ressalvas ELSE <<>>,
     insumos_utilizados |-> <<>>]

\* the accumulators of the function after "Initialize scoring"
Inicial ==
    [score |-> F_0_5, criterios_aplicados |-> <<>>, ressalvas |-> <<>>,
     insumos_utilizados |-> <<>>]

\* score += delta; criterios_aplicados.append(criterio)
Pontua(st, delta, criterio) ==
    [st EXCEPT !.score = FAdd(@, delta),
               !.criterios_aplicados = Append(@, criterio)]

\* score -= delta; criterios_aplicados.append(criterio)
Despontua(st, delta, criterio) ==
    [st EXCEPT !.score = FSub(@, delta),
               !.criterios_aplicados = Append(@, criterio)]

\* insumos_utilizados.append(texto)
Insumo(st, texto) == [st EXCEPT !.insumos_utilizados = Append(@, texto)]

\* Regra1 without carrying the prior caveats over
Regra1_SemRessalvasAnteriores(d, st) ==
    IF d.tipo_requisicao # "Renovação" THEN st
    ELSE
      LET s1 == Insumo(st, <<"Tipo de requisição", "Renovação">>)
          pa == d.parecer_anterior
      IN  IF ~Truthy(pa)
          THEN [s1 EXCEPT !.criterios_aplicados =
                              Append(@, "Renovação sem histórico de parecer anterior")]
          ELSE
            LET tipo_anterior == IF IsDict(pa) THEN pa.tipo_parecer ELSE pa.valor
                s2 == Insumo(s1, <<"Parecer anterior", tipo_anterior>>)
            IN  IF tipo_anterior = "Parecer Favorável"
                THEN Pontua(s2, F_0_3, "Parecer anterior foi favorável")
                ELSE IF tipo_anterior = "Parecer Favorável com Ressalvas"
                THEN Pontua(s2, F_0_15, "Parecer anterior foi favorável com ressalvas")
                ELSE Despontua(s2, F_0_2, "Parecer anterior foi desfavorável")

\* Regra1 applied to every request with a prior opinion, renewal or not
Regra1_TodaRequisicao(d, st) ==
    LET pa == d.parecer_anterior
    IN  IF ~Truthy(pa)
        THEN IF d.tipo_requisicao # "Renovação" THEN st
             ELSE [Insumo(st, <<"Tipo de requisição", "Renovação">>)
                      EXCEPT !.criterios_aplicados =
                                 Append(@, "Renovação sem histórico de parecer anterior")]
        ELSE
          LET tipo_anterior == IF IsDict(pa) THEN pa.tipo_parecer ELSE pa.valor
              s2 == Insumo(st, <<"Parecer anterior", tipo_anterior>>)
          IN  IF tipo_anterior = "Parecer Favorável"
              THEN Pontua(s2, F_0_3, "Parecer anterior foi favorável")
              ELSE IF tipo_anterior = "Parecer Favorável com Ressalvas"
              THEN LET s3 == Pontua(s2, F_0_15, "Parecer anterior foi favorável com ressalvas")
                   IN  IF IsDict(pa) /\ pa.ressalvas # <<>>
                       THEN [s3 EXCEPT !.ressalvas = @ \o pa.ressalvas]
                       ELSE s3
              ELSE Despontua(s2, F_0_2, "Parecer anterior foi desfavorável")

\* RULE 1: Renovação with previous opinion
Regra1(d, st) ==
    IF d.tipo_requisicao # "Renovação" THEN st
    ELSE
      LET s1 == Insumo(st, <<"Tipo de requisição", "Renovação">>)
          pa == d.parecer_anterior
      IN  IF ~Truthy(pa)
          THEN [s1 EXCEPT !.criterios_aplicados =
                              Append(@, "Renovação sem histórico de parecer anterior")]
          ELSE
            LET tipo_anterior == IF IsDict(pa) THEN pa.tipo_parecer ELSE pa.valor
                s2 == Insumo(s1, <<"Parecer anterior", tipo_anterior>>)
            IN  IF tipo_anterior = "Parecer Favorável"
                THEN Pontua(s2, F_0_3, "Parecer anterior foi favorável")
                ELSE IF tipo_anterior = "Parecer Favorável com Ressalvas"
                THEN LET s3 == Pontua(s2, F_0_15, "Parecer anterior foi favorável com ressalvas")
                     IN  IF IsDict(pa) /\ pa.ressalvas # <<>>
                         THEN [s3 EXCEPT !.ressalvas = @ \o pa.ressalvas]
                         ELSE s3
                ELSE Despontua(s2, F_0_2, "Parecer anterior foi desfavorável")

ModernTechs == <<"REST", "WEBHOOK", "MENSAGERIA">>

\* RULE 2: Available integrations
Regra2(d, st) ==
    LET integracoes == d.integracoes_disponiveis IN
    IF integracoes = <<>> THEN st
    ELSE
      LET s1 == Insumo(st, <<"Integrações disponíveis", integracoes>>)
          s2 == IF Len(integracoes) >= 3
                THEN Pontua(s1, F_0_2, "Múltiplas integrações disponíveis (>=3)")
                ELSE IF Len(integracoes) >= 1
                THEN Pontua(s1, F_0_1, "Integrações disponíveis")
                ELSE s1
          uppers == {Upper(integracoes[k]) : k \in 1..Len(integracoes)}
      IN  IF \E j \in 1..Len(ModernTechs) : Upper(ModernTechs[j]) \in uppers
          THEN Pontua(s2, F_0_1, "Suporte a tecnologias modernas")
          ELSE s2

\* Regra3 with the two flow weights exchanged
Regra3_PesosTrocados(d, st) ==
    LET fluxo_dados == d.fluxo_dados IN
    IF fluxo_dados = None THEN st
    ELSE
      LET s1 == Insumo(st, <<"Fluxo de dados", fluxo_dados>>)
      IN  IF fluxo_dados = "BIDIRECIONAL"
          THEN Pontua(s1, F_0_1, "Suporta fluxo bidirecional")
          ELSE IF fluxo_dados \in {"INBOUND", "OUTBOUND"}
          THEN Pontua(s1, F_0_15, <<"Suporta fluxo", Lower(fluxo_dados)>>)
          ELSE s1

\* RULE 3: Data flow support
Regra3(d, st) ==
    LET fluxo_dados == d.fluxo_dados IN
    IF fluxo_dados = None THEN st
    ELSE
      LET s1 == Insumo(st, <<"Fluxo de dados", fluxo_dados>>)
      IN  IF fluxo_dados = "BIDIRECIONAL"
          THEN Pontua(s1, F_0_15, "Suporta fluxo bidirecional")
          ELSE IF fluxo_dados \in {"INBOUND", "OUTBOUND"}
          THEN Pontua(s1, F_0_1, <<"Suporta fluxo", Lower(fluxo_dados)>>)
          ELSE s1

\* Regra4 scoring Desinvestir without recording its caveat
Regra4_SemRessalva(d, st) ==
    LET direcionador == d.direcionador IN
    IF direcionador = None THEN st
    ELSE
      LET s1 == Insumo(st, <<"Direcionador CMDB", direcionador>>)
      IN  IF direcionador = "Evoluir"
          THEN Pontua(s1, F_0_15, "Serviço marcado para evolução no CMDB")
          ELSE IF direcionador = "Manter"
          THEN Pontua(s1, F_0_05, "Serviço em manutenção no CMDB")
          ELSE IF direcionador = "Desinvestir"
          THEN Despontua(s1, F_0_2, "Serviço marcado para desinvestimento no CMDB")
          ELSE s1

\* RULE 4: Direcionador from CMDB
Regra4(d, st) ==
    LET direcionador == d.direcionador IN
    IF direcionador = None THEN st
    ELSE
      LET s1 == Insumo(st, <<"Direcionador CMDB", direcionador>>)
      IN  IF direcionador = "Evoluir"
          THEN Pontua(s1, F_0_15, "Serviço marcado para evolução no CMDB")
          ELSE IF direcionador = "Manter"
          THEN Pontua(s1, F_0_05, "Serviço em manutenção no CMDB")
          ELSE IF direcionador = "Desinvestir"
          THEN [Despontua(s1, F_0_2, "Serviço marcado para desinvestimento no CMDB")
                   EXCEPT !.ressalvas = Append(@, RessalvaDesinvestir)]
          ELSE s1

\* RULE 5: BV data storage
Regra5(d, st) ==
    IF ~d.armazena_dados_bv THEN st
    ELSE
      LET s1 == Insumo(st, <<"Armazena dados do BV", "Sim">>)
      IN  [Despontua(s1, F_0_1, "Armazena dados do BV (requer atenção adicional)")
              EXCEPT !.ressalvas = Append(@, RessalvaLGPD)]

\* the accumulators when the function reaches DECISION LOGIC
Acumulado(d) == Regra5(d, Regra4(d, Regra3(d, Regra2(d, Regra1(d, Inicial)))))

\* the score the function classifies on
ScoreFinal(d) == Acumulado(d).score

Raised(e) == [estado |-> "raised", excecao |-> e]

Returned(d, st, tipo_parecer, justificativa, ressalvas) ==
    [estado |-> "returned",
     parecer_sugerido |-> tipo_parecer,
     justificativa |-> justificativa,
     ressalvas |-> ressalvas,
     criterios_aplicados |-> st.criterios_aplicados,
     insumos_utilizados |-> st.insumos_utilizados,
     score_confianca |-> Round2(st.score),
     tipo_requisicao |-> d.tipo_requisicao]

\* Decisao without the generic caveats
Decisao_SemGenerica(d, st) ==
    IF FGe(st.score, F_0_8)
    THEN IF d.tipo_requisicao = None
         THEN Raised("AttributeError")
         ELSE Returned(d, st, "Parecer Favorável",
                       <<"Requisição atende todos os critérios estabelecidos.",
                         Round2(st.score), Lower(d.tipo_requisicao)>>,
                       st.ressalvas)
    ELSE IF FGe(st.score, F_0_5)
    THEN Returned(d, st, "Parecer Favorável com Ressalvas",
                  <<"Requisição atende os critérios principais com observações.",
                    Round2(st.score)>>,
                  st.ressalvas)
    ELSE Returned(d, st, "Parecer Desfavorável",
                  <<"Requisição não atende critérios mínimos estabelecidos.",
                    Round2(st.score)>>,
                  st.ressalvas)

\* Decisao whose last branch misspells the opinion type
Decisao_SemAcento(d, st) ==
    IF FGe(st.score, F_0_8)
    THEN IF d.tipo_requisicao = None
         THEN Raised("AttributeError")
         ELSE Returned(d, st, "Parecer Favorável",
                       <<"Requisição atende todos os critérios estabelecidos.",
                         Round2(st.score), Lower(d.tipo_requisicao)>>,
                       st.ressalvas)
    ELSE IF FGe(st.score, F_0_5)
    THEN Returned(d, st, "Parecer Favorável com Ressalvas",
                  <<"Requisição atende os critérios principais com observações.",
                    Round2(st.score)>>,
                  IF st.ressalvas = <<>> THEN <<RessalvaMonitorar>> ELSE st.ressalvas)
    ELSE Returned(d, st, "Parecer Desfavoravel",
                  <<"Requisição não atende critérios mínimos estabelecidos.",
                    Round2(st.score)>>,
                  IF st.ressalvas = <<>> THEN <<RessalvaAnaliseAdicional>> ELSE st.ressalvas)

\* DECISION LOGIC and the return value
Decisao(d, st) ==
    IF FGe(st.score, F_0_8)
    THEN IF d.tipo_requisicao = None
         THEN Raised("AttributeError")   \* None.lower() in the f-string
         ELSE Returned(d, st, "Parecer Favorável",
                       <<"Requisição atende todos os critérios estabelecidos.",
                         Round2(st.score), Lower(d.tipo_requisicao)>>,
                       st.ressalvas)
    ELSE IF FGe(st.score, F_0_5)
    THEN Returned(d, st, "Parecer Favorável com Ressalvas",
                  <<"Requisição atende os critérios principais com observações.",
                    Round2(st.score)>>,
                  IF st.ressalvas = <<>> THEN <<RessalvaMonitorar>> ELSE st.ressalvas)
    ELSE Returned(d, st, "Parecer Desfavorável",
                  <<"Requisição não atende critérios mínimos estabelecidos.",
                    Round2(st.score)>>,
                  IF st.ressalvas = <<>> THEN <<RessalvaAnaliseAdicional>> ELSE st.ressalvas)

\* dados_requisicao as the call leaves it: the function only reads the dict
\* (.get) and collects the caveats in a list of its own (ressalvas = [],
\* extended with the prior ones), so the caller's dict and lists stay as
\* they were
sugerir_parecer_dados(d) == d

\* sugerir_parecer refusing to score once the session holds an expiration
\* alert
sugerir_parecer_AposAlerta(d) ==
    IF \E k \in 1..Len(fluxo) :
          /\ fluxo[k].chamada.ferramenta = "capturar_vencimento"
          /\ fluxo[k].retorno.estado = "returned"
          /\ fluxo[k].retorno.status = "ALERTA"
    THEN Raised("ValueError")
    ELSE Decisao(d, Acumulado(d))

sugerir_parecer(d) == Decisao(d, Acumulado(d))

(***************************************************************************)
(* Strings built character by character (identifiers).                     *)
(***************************************************************************)
Digitos == <<"0", "1", "2", "3", "4", "5", "6", "7", "8", "9">>

\* str(n) of a non-negative integer, as a sequence of characters
RECURSIVE Str(_)
Str(n) == IF n < 10 THEN <<Digitos[n + 1]>> ELSE Append(Str(n \div 10), Digitos[(n % 10) + 1])

\* str.upper() of one character of a hexadecimal UUID
UpperChar(ch) ==
    CASE ch = "a" -> "A" [] ch = "b" -> "B" [] ch = "c" -> "C"
      [] ch = "d" -> "D" [] ch = "e" -> "E" [] ch = "f" -> "F"
      [] OTHER -> ch

UpperSeq(s) == [k \in 1..Len(s) |-> UpperChar(s[k])]

\* s[:n]
Prefixo(s, n) == SubSeq(s, 1, IF Len(s) < n THEN Len(s) ELSE n)

\* str(uuid.uuid4()): 8-4-4-4-12 lower-case hexadecimal digits; the model
\* varies the first group
UuidStr(p8) ==
    p8 \o <<"-", "9", "b", "1", "d", "-", "4", "e", "5", "f", "-", "8", "a", "0", "c", "-",
            "1", "2", "3", "4", "5", "6", "7", "8", "9", "a", "b", "c">>

Uuids ==
    {UuidStr(<<"a", "1", "b", "2", "c", "3", "d", "4">>),
     UuidStr(<<"0", "9", "f", "e", "7", "7", "0", "0">>)}

\* datetime.now().year on the hosts the agent runs on
Anos == {1970, 2025, 9999}

\* datetime.now().isoformat()
IsoFormat(ano) == <<"isoformat", ano>>

\* ParecerId without the .upper()
ParecerId_SemUpper(ano, uid) ==
    <<"P", "A", "R", "-">> \o Str(ano) \o <<"-">> \o Prefixo(uid, 8)

\* f"PAR-{datetime.now().year}-{str(uuid.uuid4())[:8].upper()}"
ParecerId(ano, uid) ==
    <<"P", "A", "R", "-">> \o Str(ano) \o <<"-">> \o UpperSeq(Prefixo(uid, 8))

(***************************************************************************)
(* The repository factory and the repositories (adapters).                 *)
(***************************************************************************)
\* USE_MOCK as os.getenv sees it: unset or one of these strings
UseMockValores == {None, "true", "TRUE", "false"}

\* what _parecer_repo can hold: nothing, the mock, or another
\* implementation of ParecerRepository whose save fails
Repositorios == {None, "MockParecerRepository", "OutroParecerRepository"}

\* the ways a ParecerRepository.save other than the mock's can fail
Falhas == {"recusa", "TimeoutError", "ConnectionError", "ValueError"}

\* get_parecer_repository(): the repository returned (or the exception
\* raised) and the cache afterwards
get_parecer_repository(cache, env) ==
    IF cache = None
    THEN LET use_mock == Lower(IF env = None THEN "true" ELSE env) = "true"
         IN  IF use_mock
             THEN [raised |-> FALSE, repo |-> "MockParecerRepository",
                   cache |-> "MockParecerRepository"]
             ELSE [raised |-> TRUE, excecao |-> "NotImplementedError", cache |-> cache]
    ELSE [raised |-> FALSE, repo |-> cache, cache |-> cache]

\* MockParecerRepository.save(dados)
MockSave(dados, ano, uid) ==
    [raised |-> FALSE,
     sucesso |-> TRUE,
     parecer_id |-> ParecerId(ano, uid),
     data_registro |-> IsoFormat(ano),
     status |-> "REGISTRADO",
     proximo_status |-> "AGUARDANDO_REVISAO_ANALISTA"]

\* save of another implementation: refuses the write or raises
OutroSave(dados, falha) ==
    IF falha = "recusa"
    THEN [raised |-> FALSE, sucesso |-> FALSE]
    ELSE [raised |-> TRUE, excecao |-> falha]

\* repository.save(parecer_data)
Save(repo, dados, ano, uid, falha) ==
    IF repo = "MockParecerRepository" THEN MockSave(dados, ano, uid)
    ELSE OutroSave(dados, falha)

(***************************************************************************)
(* registrar_parecer(dados_completos)                                      *)
(***************************************************************************)
required_fields ==
    <<"cnpj", "nome_fornecedor", "api_id", "tipo_requisicao", "parecer_sugerido",
      "justificativa">>

\* not dados_completos.get(field): the key is missing, None or empty
Falsy(v) == v = None \/ v = ""

\* [field for field in required_fields if not dados_completos.get(field)]
RECURSIVE MissingFrom(_, _)
MissingFrom(d, k) ==
    IF k > Len(required_fields) THEN <<>>
    ELSE (IF Falsy(d[required_fields[k]]) THEN <<required_fields[k]>> ELSE <<>>)
         \o MissingFrom(d, k + 1)

\* MissingFields with "justificativa" left out of required_fields
MissingFields_SemJustificativa(d) ==
    SelectSeq(MissingFrom(d, 1), LAMBDA f : f # "justificativa")

MissingFields(d) == MissingFrom(d, 1)

\* "Prepare data for persistence"
ParecerData(d, parecer_id, ano) ==
    [parecer_id |-> parecer_id,
     cnpj |-> d["cnpj"],
     nome_fornecedor |-> d["nome_fornecedor"],
     api_id |-> d["api_id"],
     tipo_requisicao |-> d["tipo_requisicao"],
     parecer_sugerido |-> d["parecer_sugerido"],
     justificativa |-> d["justificativa"],
     ressalvas |-> d["ressalvas"],
     data_parecer |-> IsoFormat(ano),
     analista |-> "Agente IA - Parecerista ANS"]

RegErro(erro, mensagem) ==
    [estado |-> "returned", sucesso |-> FALSE, erro |-> erro, mensagem |-> mensagem]

\* The whole function.  ano/uid: the clock and the UUID it draws itself;
\* anoRepo/uidRepo/falha: what the repository draws or does.  Gives the
\* return value (ret), the cache afterwards and the records handed to save.
registrar_parecer(d, cache, env, ano, uid, anoRepo, uidRepo, falha) ==
    LET missing_fields == MissingFields(d) IN
    IF missing_fields # <<>>
    THEN [ret |-> [estado |-> "returned", sucesso |-> FALSE,
                   erro |-> "CAMPOS_OBRIGATORIOS_AUSENTES",
                   mensagem |-> <<"Campos obrigatórios ausentes", missing_fields>>,
                   campos_faltantes |-> missing_fields],
          cache |-> cache, saved |-> <<>>]
    ELSE
      LET parecer_id == ParecerId(ano, uid)
          parecer_data == ParecerData(d, parecer_id, ano)
          fabrica == get_parecer_repository(cache, env)
      IN  IF fabrica.raised
          THEN [ret |-> Raised(fabrica.excecao), cache |-> fabrica.cache, saved |-> <<>>]
          ELSE
            LET result == Save(fabrica.repo, parecer_data, anoRepo, uidRepo, falha)
                ret ==
                  IF result.raised
                  THEN IF result.excecao = "TimeoutError"
                       THEN RegErro("TIMEOUT", "Sistema não respondeu no tempo esperado")
                       ELSE IF result.excecao = "ConnectionError"
                       THEN RegErro("CONNECTION_ERROR", "Falha ao conectar com sistema de registro")
                       ELSE RegErro("UNKNOWN", <<"Erro inesperado", result.excecao>>)
                  ELSE IF result.sucesso
                  THEN [estado |-> "returned", sucesso |-> TRUE,
                        parecer_id |-> result.parecer_id,
                        data_registro |-> result.data_registro,
                        status |-> result.status,
                        proximo_status |-> result.proximo_status,
                        mensagem |-> <<"Parecer registrado com sucesso", result.parecer_id>>,
                        dados_parecer |-> [tipo_parecer |-> d["parecer_sugerido"],
                                           total_ressalvas |-> Len(d["ressalvas"])]]
                  ELSE RegErro("FALHA_REGISTRO", "Falha ao registrar parecer no sistema")
            IN  [ret |-> ret, cache |-> fabrica.cache, saved |-> <<parecer_data>>]

\* the dicts the model passes to registrar_parecer: a required field is
\* missing (None), empty ("") or filled in; ressalvas is a list of caveats
DadosCompletos ==
    [cnpj : {None, "", "12345678000190", "12.345.678/0001-90"},
     nome_fornecedor : {None, "Tech Solutions LTDA"},
     api_id : {None, "API-001"},
     tipo_requisicao : {None, "Renovação"},
     parecer_sugerido : {None, "Parecer Favorável com Ressalvas"},
     justificativa : {None, "", "Aprovado com ressalvas."},
     ressalvas : {<<>>, <<RessalvaAnterior1, RessalvaAnterior2>>}]

(***************************************************************************)
(* The scoring engine as a state machine: a bundle is assembled, then      *)
(* scored.                                                                 *)
(***************************************************************************)
\* the lookup side at rest: nothing loaded, nothing called
ConsultaParada ==
    /\ ONETRUST_DATABASE = <<>>
    /\ CMDB_DATABASE = <<>>
    /\ HISTORICO_PARECERES = <<>>
    /\ onetrust_repo = None
    /\ cmdb_repo = None
    /\ historico_repo = None
    /\ chamada = [ferramenta |-> "nenhuma"]
    /\ retorno = Pendente
    /\ repo_args = <<>>

\* no session: no request, no tool call made by the agent
AgenteParado ==
    /\ requisicao = [tipo_requisicao |-> None]
    /\ fluxo = <<>>
    /\ threads = <<>>
    /\ handler = SemHandler

\* the registration side at rest
RegistrarParado ==
    /\ dados_completos = [k \in {} |-> None]
    /\ registro = Pendente
    /\ USE_MOCK = None
    /\ parecer_repo = None
    /\ save_calls = <<>>

InitSugerir ==
    /\ RegistrarParado
    /\ ConsultaParada
    /\ AgenteParado
    /\ ultimo_parecer \in {SemParecer} \cup ParecerAnteriores
    /\ \E t \in {None} \cup TipoRequisicao, i \in Integracoes,
          f \in {None} \cup FluxoLabels, dr \in {None} \cup Direcionador,
          p \in FormasDe(ultimo_parecer), a \in BOOLEAN :
            dados_requisicao = Bundle(t, i, f, dr, p, a)
    /\ resultado = Pendente

SugerirParecer ==
    /\ resultado = Pendente
    /\ resultado' = sugerir_parecer(dados_requisicao)
    /\ UNCHANGED <<ultimo_parecer, dados_requisicao>>
    /\ UNCHANGED varsRegistrar
    /\ UNCHANGED varsConsulta
    /\ UNCHANGED varsAgente
    /\ UNCHANGED <<threads, handler>>

NextSugerir == SugerirParecer

SpecSugerir == InitSugerir /\ [][NextSugerir]_vars

(***************************************************************************)
(* The registration sink as a state machine: a dict is assembled in some   *)
(* environment, then registered.                                           *)
(***************************************************************************)
\* the scoring side at rest
SugerirParado ==
    /\ ultimo_parecer = SemParecer
    /\ dados_requisicao = Bundle(None, <<>>, None, None, PaNone, FALSE)
    /\ resultado = Pendente

InitRegistrar ==
    /\ SugerirParado
    /\ ConsultaParada
    /\ AgenteParado
    /\ dados_completos \in DadosCompletos
    /\ registro = Pendente
    /\ USE_MOCK \in UseMockValores
    /\ parecer_repo \in Repositorios
    /\ save_calls = <<>>

RegistrarParecer ==
    /\ registro = Pendente
    /\ \E ano \in Anos, uid \in Uuids, anoRepo \in Anos, uidRepo \in Uuids, falha \in Falhas :
          LET r == registrar_parecer(dados_completos, parecer_repo, USE_MOCK,
                                     ano, uid, anoRepo, uidRepo, falha)
          IN  /\ registro' = r.ret
              /\ parecer_repo' = r.cache
              /\ save_calls' = save_calls \o r.saved
    /\ UNCHANGED <<dados_completos, USE_MOCK>>
    /\ UNCHANGED varsSugerir
    /\ UNCHANGED varsConsulta
    /\ UNCHANGED varsAgente
    /\ UNCHANGED <<threads, handler>>

NextRegistrar == RegistrarParecer

SpecRegistrar == InitRegistrar /\ [][NextRegistrar]_vars

(***************************************************************************)
(* Tax IDs (CNPJ) as the lookup tools see them: Python strings, held as    *)
(* sequences of characters.                                                *)
(***************************************************************************)
\* the tax IDs of the mock stores, and one no store knows
Cnpj_TechSolutions == <<"1", "2", "3", "4", "5", "6", "7", "8", "0", "0", "0", "1", "9", "0">>
Cnpj_CloudData == <<"9", "8", "7", "6", "5", "4", "3", "2", "0", "0", "0", "1", "0", "1">>
Cnpj_Analytics == <<"1", "1", "2", "2", "2", "3", "3", "3", "0", "0", "0", "1", "4", "4">>
Cnpj_CloudProvider == <<"1", "1", "2", "2", "3", "3", "4", "4", "0", "0", "0", "1", "5", "5">>
Cnpj_Desconhecido == <<"0", "0", "0", "0", "0", "0", "0", "0", "0", "0", "0", "1", "9", "1">>

Cnpjs14 == {Cnpj_TechSolutions, Cnpj_CloudData, Cnpj_Analytics, Cnpj_Desconhecido}

\* s with the string t inserted before position k (1-based)
Insere(s, k, t) == SubSeq(s, 1, k - 1) \o t \o SubSeq(s, k, Len(s))

\* the customary formatting NN.NNN.NNN/NNNN-NN of 14 digits
Formatado(d) ==
    SubSeq(d, 1, 2) \o <<".">> \o SubSeq(d, 3, 5) \o <<".">> \o SubSeq(d, 6, 8)
        \o <<"/">> \o SubSeq(d, 9, 12) \o <<"-">> \o SubSeq(d, 13, 14)

\* other placements of the separators '.', '/' and '-'
Formatacoes(d) ==
    {d, Formatado(d),
     Insere(d, 9, <<"/">>),
     Insere(d, 13, <<"-">>),
     Insere(d, 1, <<"-", ".">>),
     Insere(d, 15, <<"/", "/">>)}

\* strings that are no formatting of 14 digits: blanks as separators, a
\* letter, too few digits, the empty string
ComEspacos(d) == SubSeq(d, 1, 8) \o <<" ">> \o SubSeq(d, 9, 14)
ComLetra(d) == SubSeq(d, 1, 13) \o <<"X">>
Curto(d) == SubSeq(d, 1, 3)
MalFormados == {ComEspacos(Cnpj_TechSolutions), ComLetra(Cnpj_TechSolutions),
                Curto(Cnpj_TechSolutions), <<>>}

\* the cnpj arguments the model passes to the lookup tools
CnpjArgs == (UNION {Formatacoes(d) : d \in Cnpjs14}) \cup MalFormados

\* str.replace(old, "") for a one-character old
Replace(s, old) == SelectSeq(s, LAMBDA ch : ch # old)

\* CnpjClean without the last replace
CnpjClean_SemHifen(cnpj) == Replace(Replace(cnpj, "."), "/")

\* cnpj.replace(".", "").replace("/", "").replace("-", "")
CnpjClean(cnpj) == Replace(Replace(Replace(cnpj, "."), "/"), "-")

\* the characters of the cnpj strings of DadosCompletos
Texto(s) ==
    CASE s = "12345678000190" -> Cnpj_TechSolutions
      [] s = "12.345.678/0001-90" -> Formatado(Cnpj_TechSolutions)
      [] s = "98765432000101" -> Cnpj_CloudData
      [] s = "11.222.333/0001-44" -> Formatado(Cnpj_Analytics)
      [] s = "11223344000155" -> Cnpj_CloudProvider
      [] s = "" -> <<>>

(***************************************************************************)
(* The record stores (mock/mock_data.py).  Instants are counted in half    *)
(* days from the moment the module is imported, so that a date set to      *)
(* now() + timedelta(days=N) at import is the instant 2*N.                 *)
(***************************************************************************)

\* Python values whose type the tools test: None, an int, a datetime, a str
PyNone == [tipo |-> "NoneType"]
PyInt(n) == [tipo |-> "int", v |-> n]
DateTime(instante) == [tipo |-> "datetime", instante |-> instante]
PyStr(chars) == [tipo |-> "str", chars |-> chars]

\* datetime.now() + timedelta(days=n), evaluated at import
EmDias(n) == DateTime(2 * n)

OneTrustContexto(cnpj, venc, tipo, nome) ==
    [cnpj |-> cnpj, existe_cadastro |-> TRUE, data_vencimento_contrato |-> venc,
     tipo_contrato |-> tipo, nome_fornecedor |-> nome]

Onetrust_Mock ==
    (Cnpj_TechSolutions :> OneTrustContexto(Cnpj_TechSolutions, EmDias(540), "Renovação",
                                            "Tech Solutions LTDA"))
    @@ (Cnpj_CloudData :> OneTrustContexto(Cnpj_CloudData, EmDias(650), "Renovação",
                                           "Cloud Data Services S.A."))
    @@ (Cnpj_Analytics :> OneTrustContexto(Cnpj_Analytics, PyNone, "Nova Contratação",
                                           "Analytics Platform Inc"))
    @@ (Cnpj_CloudProvider :> OneTrustContexto(Cnpj_CloudProvider, EmDias(900), "Renovação",
                                               "Cloud Provider Inc"))

CMDBData(api_id, sigla, direcionador) ==
    [api_id |-> api_id, existe_cadastro |-> TRUE, sigla |-> sigla,
     direcionador |-> direcionador]

Cmdb_Mock ==
    ("API-001" :> CMDBData("API-001", "CRM-API", "Evoluir"))
    @@ ("API-002" :> CMDBData("API-002", "CLOUD-STORAGE", "Manter"))
    @@ ("API-004" :> CMDBData("API-004", "LEGACY-SYSTEM", "Desinvestir"))

\* a catalog entry whose direcionador was never filled in
Cmdb_SemDirecionador == Cmdb_Mock @@ ("API-900" :> CMDBData("API-900", "NOVO", None))

\* service types, as character sequences
S_ApiCrm == <<"A", "P", "I", " ", "d", "e", " ", "C", "R", "M">>
S_CloudStorage == <<"C", "l", "o", "u", "d", " ", "S", "t", "o", "r", "a", "g", "e">>
S_CloudInfrastructure ==
    <<"C", "l", "o", "u", "d", " ", "I", "n", "f", "r", "a", "s", "t", "r", "u", "c", "t", "u", "r", "e">>

ParecerAnterior(id, data, tipo, ressalvas, cnpj, servico) ==
    [parecer_id |-> id, data_parecer |-> data, tipo_parecer |-> tipo,
     justificativa |-> <<"justificativa de", id>>, ressalvas |-> ressalvas,
     analista |-> <<"analista de", id>>, cnpj_fornecedor |-> cnpj, tipo_servico |-> servico]

RessalvasCloud ==
    <<"Documentação técnica deve ser atualizada trimestralmente",
      "SLA deve ser revisado após 6 meses de operação">>

Historico_Mock ==
    (Cnpj_TechSolutions :>
        <<ParecerAnterior("PAR-2024-001", "2024-01-15", "Parecer Favorável", <<>>,
                          Cnpj_TechSolutions, S_ApiCrm)>>)
    @@ (Cnpj_CloudData :>
        <<ParecerAnterior("PAR-2024-002", "2023-06-01", "Parecer Favorável com Ressalvas",
                          RessalvasCloud, Cnpj_CloudData, S_CloudStorage),
          ParecerAnterior("PAR-2023-045", "2022-12-10", "Parecer Favorável", <<>>,
                          Cnpj_CloudData, S_CloudInfrastructure)>>)

\* A history of the same shape with a long list (seven entries, six of them
\* cloud services, the first one without caveats) and an empty list.
Historico_Longo ==
    Historico_Mock
    @@ (Cnpj_Analytics :>
        <<ParecerAnterior("PAR-2024-107", "2024-07-01", "Parecer Desfavorável", <<>>,
                          Cnpj_Analytics, S_CloudStorage),
          ParecerAnterior("PAR-2024-106", "2024-06-01", "Parecer Favorável", <<>>,
                          Cnpj_Analytics, S_ApiCrm),
          ParecerAnterior("PAR-2024-105", "2024-05-01", "Parecer Favorável com Ressalvas",
                          RessalvasCloud, Cnpj_Analytics, S_CloudInfrastructure),
          ParecerAnterior("PAR-2024-104", "2024-04-01", "Parecer Desfavorável", <<>>,
                          Cnpj_Analytics, S_CloudStorage),
          ParecerAnterior("PAR-2024-103", "2024-03-01", "Parecer Desfavorável", <<>>,
                          Cnpj_Analytics, S_CloudStorage),
          ParecerAnterior("PAR-2024-102", "2024-02-01", "Parecer Favorável com Ressalvas",
                          RessalvasCloud, Cnpj_Analytics, S_CloudStorage),
          ParecerAnterior("PAR-2024-101", "2024-01-01", "Parecer Favorável", <<>>,
                          Cnpj_Analytics, S_CloudStorage)>>)
    @@ (Cnpj_CloudProvider :> <<>>)

\* dict.get(key) / dict.get(key, default)
DictGet(dict, key, default) == IF key \in DOMAIN dict THEN dict[key] ELSE default

\* Each accessor gives the value it returns and the store as it leaves it.

\* get_onetrust_contexto(cnpj)
get_onetrust_contexto(db, cnpj) == [ret |-> DictGet(db, cnpj, PyNone), store |-> db]

\* get_cmdb_data(api_id)
get_cmdb_data(db, api_id) == [ret |-> DictGet(db, api_id, PyNone), store |-> db]

\* get_last_parecer with HISTORICO_PARECERES.setdefault(cnpj, []) for .get
get_last_parecer_setdefault(db, cnpj) ==
    LET pareceres == DictGet(db, cnpj, <<>>)
    IN  [ret |-> IF pareceres # <<>> THEN pareceres[1] ELSE PyNone,
         store |-> IF cnpj \in DOMAIN db THEN db ELSE db @@ (cnpj :> <<>>)]

\* get_last_parecer(cnpj)
get_last_parecer(db, cnpj) ==
    LET pareceres == DictGet(db, cnpj, <<>>)
    IN  [ret |-> IF pareceres # <<>> THEN pareceres[1] ELSE PyNone, store |-> db]

Maiusculas ==
    <<"A", "B", "C", "D", "E", "F", "G", "H", "I", "J", "K", "L", "M",
      "N", "O", "P", "Q", "R", "S", "T", "U", "V", "W", "X", "Y", "Z">>
Minusculas ==
    <<"a", "b", "c", "d", "e", "f", "g", "h", "i", "j", "k", "l", "m",
      "n", "o", "p", "q", "r", "s", "t", "u", "v", "w", "x", "y", "z">>

\* str.lower(), character by character
LowerChar(ch) ==
    IF \E i \in 1..Len(Maiusculas) : Maiusculas[i] = ch
    THEN Minusculas[CHOOSE i \in 1..Len(Maiusculas) : Maiusculas[i] = ch]
    ELSE ch
LowerSeq(s) == [k \in 1..Len(s) |-> LowerChar(s[k])]

\* sub in s
Contido(sub, s) ==
    \E i \in 0..(Len(s) - Len(sub)) : SubSeq(s, i + 1, i + Len(sub)) = sub

\* lst[:n]
Ate(lst, n) == SubSeq(lst, 1, IF Len(lst) < n THEN Len(lst) ELSE n)

\* tipos_count[t] after the counting loop
Contagem(lst, t) == Cardinality({k \in 1..Len(lst) : lst[k].tipo_parecer = t})

\* where t entered tipos_count (dicts keep insertion order)
PrimeiraPosicao(lst, t) == CHOOSE k \in 1..Len(lst) :
    lst[k].tipo_parecer = t /\ \A j \in 1..(k - 1) : lst[j].tipo_parecer # t

\* max(tipos_count, key=tipos_count.get): the first key with the largest count
TipoMaisComum(lst) ==
    CHOOSE t \in {lst[k].tipo_parecer : k \in 1..Len(lst)} :
        \A u \in {lst[k].tipo_parecer : k \in 1..Len(lst)} :
            \/ Contagem(lst, t) > Contagem(lst, u)
            \/ Contagem(lst, t) = Contagem(lst, u)
               /\ PrimeiraPosicao(lst, t) <= PrimeiraPosicao(lst, u)

SugestaoHistoricoPositivo == "Fornecedor com histórico positivo de entregas"
PadraoRessalvas == <<"Pareceres anteriores continham ressalvas que devem ser consideradas">>

\* search_pareceres_similares without the [:limit]
search_pareceres_similares_SemLimite(db, cnpj, tipo_servico, limit) ==
    LET pareceres == DictGet(db, cnpj, <<>>) IN
    IF tipo_servico = PyNone /\ pareceres # <<>>
    THEN [raised |-> TRUE, excecao |-> "AttributeError", store |-> db]
    ELSE
      LET filtrados ==
              SelectSeq(pareceres,
                  LAMBDA p : Contido(LowerSeq(tipo_servico.chars), LowerSeq(p.tipo_servico)))
          tipo_mais_comum == TipoMaisComum(filtrados)
          padroes ==
              IF filtrados = <<>> THEN <<>>
              ELSE <<<<"Histórico mostra", Contagem(filtrados, tipo_mais_comum),
                       tipo_mais_comum>>>>
                   \o (IF \E k \in 1..Len(filtrados) : filtrados[k].ressalvas # <<>>
                       THEN <<PadraoRessalvas>> ELSE <<>>)
          sugestoes ==
              IF \E k \in 1..Len(filtrados) : filtrados[k].tipo_parecer = "Parecer Favorável"
              THEN <<SugestaoHistoricoPositivo>> ELSE <<>>
      IN  [raised |-> FALSE,
           ret |-> [pareceres_similares |-> filtrados,
                    total_encontrados |-> Len(filtrados),
                    padroes_identificados |-> padroes,
                    sugestoes_texto |-> sugestoes],
           store |-> db]

\* search_pareceres_similares(cnpj, tipo_servico, limit)
search_pareceres_similares(db, cnpj, tipo_servico, limit) ==
    LET pareceres == DictGet(db, cnpj, <<>>) IN
    IF tipo_servico = PyNone /\ pareceres # <<>>
    THEN [raised |-> TRUE, excecao |-> "AttributeError", store |-> db]
    ELSE
      LET pareceres_filtrados ==
              Ate(SelectSeq(pareceres,
                      LAMBDA p : Contido(LowerSeq(tipo_servico.chars), LowerSeq(p.tipo_servico))),
                  limit)
          tipo_mais_comum == TipoMaisComum(pareceres_filtrados)
          padroes ==
              IF pareceres_filtrados = <<>> THEN <<>>
              ELSE <<<<"Histórico mostra", Contagem(pareceres_filtrados, tipo_mais_comum),
                       tipo_mais_comum>>>>
                   \o (IF \E k \in 1..Len(pareceres_filtrados) :
                              pareceres_filtrados[k].ressalvas # <<>>
                       THEN <<PadraoRessalvas>> ELSE <<>>)
          sugestoes ==
              IF \E k \in 1..Len(pareceres_filtrados) :
                     pareceres_filtrados[k].tipo_parecer = "Parecer Favorável"
              THEN <<SugestaoHistoricoPositivo>> ELSE <<>>
      IN  [raised |-> FALSE,
           ret |-> [pareceres_similares |-> pareceres_filtrados,
                    total_encontrados |-> Len(pareceres_filtrados),
                    padroes_identificados |-> padroes,
                    sugestoes_texto |-> sugestoes],
           store |-> db]

(***************************************************************************)
(* The lookup repositories and their factories (adapters).                 *)
(***************************************************************************)
\* what a lookup backend other than the mock does with a query: it holds
\* no such record, or it fails
FalhasConsulta == {"ausente", "TimeoutError", "ConnectionError", "ValueError"}

\* get_onetrust_repository()
get_onetrust_repository(cache, env) ==
    IF cache = None
    THEN LET use_mock == Lower(IF env = None THEN "true" ELSE env) = "true"
         IN  IF use_mock
             THEN [raised |-> FALSE, repo |-> "MockOneTrustRepository",
                   cache |-> "MockOneTrustRepository"]
             ELSE [raised |-> TRUE, excecao |-> "NotImplementedError", cache |-> cache]
    ELSE [raised |-> FALSE, repo |-> cache, cache |-> cache]

\* get_cmdb_repository reading USE_MOCK on every call, cached or not
get_cmdb_repository_SemCache(cache, env) ==
    LET use_mock == Lower(IF env = None THEN "true" ELSE env) = "true"
    IN  IF use_mock
        THEN [raised |-> FALSE, repo |-> "MockCMDBRepository",
              cache |-> "MockCMDBRepository"]
        ELSE [raised |-> TRUE, excecao |-> "NotImplementedError", cache |-> cache]

\* get_cmdb_repository()
get_cmdb_repository(cache, env) ==
    IF cache = None
    THEN LET use_mock == Lower(IF env = None THEN "true" ELSE env) = "true"
         IN  IF use_mock
             THEN [raised |-> FALSE, repo |-> "MockCMDBRepository",
                   cache |-> "MockCMDBRepository"]
             ELSE [raised |-> TRUE, excecao |-> "NotImplementedError", cache |-> cache]
    ELSE [raised |-> FALSE, repo |-> cache, cache |-> cache]

\* get_historico_repository()
get_historico_repository(cache, env) ==
    IF cache = None
    THEN LET use_mock == Lower(IF env = None THEN "true" ELSE env) = "true"
         IN  IF use_mock
             THEN [raised |-> FALSE, repo |-> "MockHistoricoRepository",
                   cache |-> "MockHistoricoRepository"]
             ELSE [raised |-> TRUE, excecao |-> "NotImplementedError", cache |-> cache]
    ELSE [raised |-> FALSE, repo |-> cache, cache |-> cache]

\* a repository method that fails, or finds nothing (vazio)
OutroGet(db, falha, vazio) ==
    IF falha = "ausente"
    THEN [raised |-> FALSE, ret |-> vazio, store |-> db]
    ELSE [raised |-> TRUE, excecao |-> falha, store |-> db]

\* a mock accessor that returns normally
Normal(r) == [raised |-> FALSE, ret |-> r.ret, store |-> r.store]

\* OneTrustRepository.get(cnpj)
OneTrustGet(repo, db, cnpj, falha) ==
    IF repo = "MockOneTrustRepository" THEN Normal(get_onetrust_contexto(db, cnpj))
    ELSE OutroGet(db, falha, PyNone)

\* CMDBRepository.get(api_id)
CMDBGet(repo, db, api_id, falha) ==
    IF repo = "MockCMDBRepository" THEN Normal(get_cmdb_data(db, api_id))
    ELSE OutroGet(db, falha, PyNone)

\* get_last_parecer that takes the last element of the list
HistoricoGetLast_Ultimo(repo, db, cnpj, falha) ==
    IF repo = "MockHistoricoRepository"
    THEN LET pareceres == DictGet(db, cnpj, <<>>)
         IN  [raised |-> FALSE,
              ret |-> IF pareceres # <<>> THEN pareceres[Len(pareceres)] ELSE PyNone,
              store |-> db]
    ELSE OutroGet(db, falha, PyNone)

\* HistoricoRepository.get_last_parecer(cnpj)
HistoricoGetLast(repo, db, cnpj, falha) ==
    IF repo = "MockHistoricoRepository" THEN Normal(get_last_parecer(db, cnpj))
    ELSE OutroGet(db, falha, PyNone)

InsumoVazio ==
    [pareceres_similares |-> <<>>, total_encontrados |-> 0,
     padroes_identificados |-> <<>>, sugestoes_texto |-> <<>>]

\* HistoricoRepository.search(cnpj, tipo_servico, limit)
HistoricoSearch(repo, db, cnpj, tipo_servico, limit, falha) ==
    IF repo = "MockHistoricoRepository"
    THEN search_pareceres_similares(db, cnpj, tipo_servico, limit)
    ELSE OutroGet(db, falha, InsumoVazio)

(***************************************************************************)
(* The lookup tools.  Each gives its return value (ret, or the exception   *)
(* that leaves it), the repository cache and the store afterwards, and     *)
(* the arguments that reached the repository (args).                       *)
(***************************************************************************)
\* datetime.isoformat() of an instant
DataIso(instante) == [tipo |-> "str", isoformat |-> instante]

\* (data_vencimento_contrato - datetime.now()).days: whole days, rounded down
DeltaDays(venc, agora) == (venc.instante - agora) \div 2

\* integrar_onetrust(cnpj)
integrar_onetrust(cnpj, cache, env, db, agora, falha) ==
    LET cnpj_clean == CnpjClean(cnpj)
        fabrica == get_onetrust_repository(cache, env)
    IN  IF fabrica.raised
        THEN [ret |-> Raised(fabrica.excecao), cache |-> fabrica.cache, store |-> db,
              args |-> <<>>]
        ELSE
          LET r == OneTrustGet(fabrica.repo, db, cnpj_clean, falha)
              erro(codigo, mensagem, acao) ==
                  [estado |-> "returned", encontrado |-> FALSE, erro |-> codigo,
                   cnpj |-> cnpj_clean, mensagem |-> mensagem, acao_requerida |-> acao]
              ret ==
                IF r.raised
                THEN IF r.excecao = "TimeoutError"
                     THEN erro("TIMEOUT",
                               "OneTrust não respondeu no tempo esperado. Tente novamente em alguns minutos.",
                               "Aguardar e tentar novamente")
                     ELSE IF r.excecao = "ConnectionError"
                     THEN erro("CONNECTION_ERROR",
                               "Falha ao conectar com OneTrust. Verifique conectividade.",
                               "Verificar conectividade e tentar novamente")
                     ELSE erro("UNKNOWN", <<"Erro inesperado ao consultar OneTrust", r.excecao>>,
                               "Contatar suporte técnico")
                ELSE IF r.ret = PyNone
                THEN [estado |-> "returned", encontrado |-> FALSE, cnpj |-> cnpj_clean,
                      mensagem |-> "Fornecedor não encontrado no OneTrust",
                      acao_requerida |-> "Cadastrar fornecedor no OneTrust antes de prosseguir"]
                ELSE
                  LET onetrust_data == r.ret
                      venc == onetrust_data.data_vencimento_contrato
                  IN  [estado |-> "returned", encontrado |-> TRUE,
                       cnpj |-> onetrust_data.cnpj,
                       nome_fornecedor |-> onetrust_data.nome_fornecedor,
                       tipo_contrato |-> onetrust_data.tipo_contrato,
                       data_vencimento_contrato |->
                           IF venc # PyNone THEN DataIso(venc.instante) ELSE PyNone,
                       dias_ate_vencimento |->
                           IF venc # PyNone THEN PyInt(DeltaDays(venc, agora)) ELSE PyNone]
          IN  [ret |-> ret, cache |-> fabrica.cache, store |-> r.store,
               args |-> <<cnpj_clean>>]

\* consultar_cmdb with the TimeoutError handler left out, so that a timeout
\* falls to the handler of Exception
consultar_cmdb_SemTimeout(api_id, cache, env, db, falha) ==
    LET fabrica == get_cmdb_repository(cache, env)
    IN  IF fabrica.raised
        THEN [ret |-> Raised(fabrica.excecao), cache |-> fabrica.cache, store |-> db,
              args |-> <<>>]
        ELSE
          LET r == CMDBGet(fabrica.repo, db, api_id, falha)
              erro(codigo, mensagem, acao) ==
                  [estado |-> "returned", encontrado |-> FALSE, erro |-> codigo,
                   api_id |-> api_id, mensagem |-> mensagem, acao_requerida |-> acao]
              ret ==
                IF r.raised
                THEN IF r.excecao = "ConnectionError"
                     THEN erro("CONNECTION_ERROR", "Falha ao conectar com CMDB.",
                               "Verificar conectividade")
                     ELSE erro("UNKNOWN", <<"Erro inesperado", r.excecao>>,
                               "Contatar suporte técnico")
                ELSE IF r.ret = PyNone
                THEN [estado |-> "returned", encontrado |-> FALSE, api_id |-> api_id,
                      mensagem |-> "Serviço/API não encontrado no CMDB",
                      acao_requerida |-> "Verificar ID do serviço ou cadastrar no CMDB"]
                ELSE
                  LET cmdb_data == r.ret
                  IN  [estado |-> "returned", encontrado |-> TRUE,
                       api_id |-> cmdb_data.api_id,
                       sigla |-> cmdb_data.sigla,
                       direcionador |-> cmdb_data.direcionador]
          IN  [ret |-> ret, cache |-> fabrica.cache, store |-> r.store, args |-> <<api_id>>]

\* consultar_cmdb(api_id)
consultar_cmdb(api_id, cache, env, db, falha) ==
    LET fabrica == get_cmdb_repository(cache, env)
    IN  IF fabrica.raised
        THEN [ret |-> Raised(fabrica.excecao), cache |-> fabrica.cache, store |-> db,
              args |-> <<>>]
        ELSE
          LET r == CMDBGet(fabrica.repo, db, api_id, falha)
              erro(codigo, mensagem, acao) ==
                  [estado |-> "returned", encontrado |-> FALSE, erro |-> codigo,
                   api_id |-> api_id, mensagem |-> mensagem, acao_requerida |-> acao]
              ret ==
                IF r.raised
                THEN IF r.excecao = "TimeoutError"
                     THEN erro("TIMEOUT", "CMDB não respondeu no tempo esperado.",
                               "Aguardar e tentar novamente")
                     ELSE IF r.excecao = "ConnectionError"
                     THEN erro("CONNECTION_ERROR", "Falha ao conectar com CMDB.",
                               "Verificar conectividade")
                     ELSE erro("UNKNOWN", <<"Erro inesperado", r.excecao>>,
                               "Contatar suporte técnico")
                ELSE IF r.ret = PyNone
                THEN [estado |-> "returned", encontrado |-> FALSE, api_id |-> api_id,
                      mensagem |-> "Serviço/API não encontrado no CMDB",
                      acao_requerida |-> "Verificar ID do serviço ou cadastrar no CMDB"]
                ELSE
                  LET cmdb_data == r.ret
                  IN  [estado |-> "returned", encontrado |-> TRUE,
                       api_id |-> cmdb_data.api_id,
                       sigla |-> cmdb_data.sigla,
                       direcionador |-> cmdb_data.direcionador]
          IN  [ret |-> ret, cache |-> fabrica.cache, store |-> r.store, args |-> <<api_id>>]

\* the fields of a ParecerAnterior that carregar_insumos passes on
Resumo(p) ==
    [parecer_id |-> p.parecer_id, data_parecer |-> p.data_parecer,
     tipo_parecer |-> p.tipo_parecer, justificativa |-> p.justificativa,
     ressalvas |-> p.ressalvas, analista |-> p.analista]

\* carregar_insumos(cnpj, tipo_servico)
carregar_insumos(cnpj, tipo_servico, cache, env, db, falha) ==
    LET cnpj_clean == CnpjClean(cnpj)
        fabrica == get_historico_repository(cache, env)
    IN  IF fabrica.raised
        THEN [ret |-> Raised(fabrica.excecao), cache |-> fabrica.cache, store |-> db,
              args |-> <<>>]
        ELSE
          LET r == HistoricoSearch(fabrica.repo, db, cnpj_clean, tipo_servico, 5, falha)
              ret ==
                IF r.raised
                THEN [estado |-> "returned", total_encontrados |-> 0,
                      pareceres_similares |-> <<>>, padroes_identificados |-> <<>>,
                      sugestoes_texto |-> <<>>, erro |-> r.excecao]
                ELSE
                  LET insumos == r.ret
                  IN  [estado |-> "returned",
                       total_encontrados |-> insumos.total_encontrados,
                       pareceres_similares |->
                           [k \in 1..Len(insumos.pareceres_similares) |->
                               Resumo(insumos.pareceres_similares[k])],
                       padroes_identificados |-> insumos.padroes_identificados,
                       sugestoes_texto |-> insumos.sugestoes_texto]
          IN  [ret |-> ret, cache |-> fabrica.cache, store |-> r.store,
               args |-> <<cnpj_clean>>]

AcaoIncluirRessalvas == "Incluir ressalvas anteriores no parecer atual se ainda aplicáveis"

\* carregar_ressalvas(cnpj)
carregar_ressalvas(cnpj, cache, env, db, falha) ==
    LET cnpj_clean == CnpjClean(cnpj)
        fabrica == get_historico_repository(cache, env)
    IN  IF fabrica.raised
        THEN [ret |-> Raised(fabrica.excecao), cache |-> fabrica.cache, store |-> db,
              args |-> <<>>]
        ELSE
          LET r == HistoricoGetLast(fabrica.repo, db, cnpj_clean, falha)
              ret ==
                IF r.raised
                THEN [estado |-> "returned", tem_ressalvas |-> FALSE,
                      parecer_anterior_encontrado |-> FALSE, ressalvas |-> <<>>,
                      erro |-> r.excecao]
                ELSE IF r.ret = PyNone
                THEN [estado |-> "returned", tem_ressalvas |-> FALSE,
                      parecer_anterior_encontrado |-> FALSE, ressalvas |-> <<>>,
                      mensagem |-> "Nenhum parecer anterior encontrado para este fornecedor"]
                ELSE
                  LET parecer_anterior == r.ret
                  IN  IF parecer_anterior.ressalvas = <<>>
                      THEN [estado |-> "returned", tem_ressalvas |-> FALSE,
                            parecer_anterior_encontrado |-> TRUE, ressalvas |-> <<>>,
                            parecer_anterior |->
                                [parecer_id |-> parecer_anterior.parecer_id,
                                 data_parecer |-> parecer_anterior.data_parecer,
                                 tipo_parecer |-> parecer_anterior.tipo_parecer],
                            mensagem |-> "Parecer anterior não continha ressalvas"]
                      ELSE [estado |-> "returned", tem_ressalvas |-> TRUE,
                            parecer_anterior_encontrado |-> TRUE,
                            ressalvas |-> parecer_anterior.ressalvas,
                            parecer_anterior |->
                                [parecer_id |-> parecer_anterior.parecer_id,
                                 data_parecer |-> parecer_anterior.data_parecer,
                                 tipo_parecer |-> parecer_anterior.tipo_parecer,
                                 justificativa |-> parecer_anterior.justificativa],
                            acao_requerida |-> AcaoIncluirRessalvas]
          IN  [ret |-> ret, cache |-> fabrica.cache, store |-> r.store,
               args |-> <<cnpj_clean>>]

(***************************************************************************)
(* capturar_vencimento(data_vencimento, dias_ate_vencimento)               *)
(***************************************************************************)
\* an optional text of the result
Msg(texto) == [tipo |-> "str", texto |-> texto]

\* not data_vencimento: None and the empty string are false
SemValor(v) == v = PyNone \/ v = PyStr(<<>>)

\* capturar_vencimento with dias_ate_vencimento < 730 for <= 730
capturar_vencimento_Estrito(data_vencimento, dias_ate_vencimento) ==
    IF SemValor(data_vencimento)
    THEN [estado |-> "returned", status |-> "BLOQUEIO", data_vencimento |-> PyNone,
          dias_ate_vencimento |-> PyNone, dentro_prazo_2anos |-> FALSE,
          alerta |-> Msg("Data de vencimento não disponível no OneTrust. Cadastro obrigatório."),
          acao_requerida |-> Msg("Atualizar OneTrust com data de vencimento do contrato")]
    ELSE IF dias_ate_vencimento = PyNone
    THEN Raised("TypeError")
    ELSE
      LET dentro_prazo == dias_ate_vencimento.v < 730
      IN  IF ~dentro_prazo
          THEN [estado |-> "returned", status |-> "ALERTA",
                data_vencimento |-> data_vencimento,
                dias_ate_vencimento |-> dias_ate_vencimento,
                dentro_prazo_2anos |-> FALSE,
                alerta |-> Msg(<<"Contrato vence em", dias_ate_vencimento.v,
                                 "dias (>2 anos). Revisar necessidade de parecer.">>),
                acao_requerida |-> Msg("Verificar se renovação antecipada é necessária")]
          ELSE [estado |-> "returned", status |-> "OK",
                data_vencimento |-> data_vencimento,
                dias_ate_vencimento |-> dias_ate_vencimento,
                dentro_prazo_2anos |-> TRUE, alerta |-> PyNone, acao_requerida |-> PyNone]

capturar_vencimento(data_vencimento, dias_ate_vencimento) ==
    IF SemValor(data_vencimento)
    THEN [estado |-> "returned", status |-> "BLOQUEIO", data_vencimento |-> PyNone,
          dias_ate_vencimento |-> PyNone, dentro_prazo_2anos |-> FALSE,
          alerta |-> Msg("Data de vencimento não disponível no OneTrust. Cadastro obrigatório."),
          acao_requerida |-> Msg("Atualizar OneTrust com data de vencimento do contrato")]
    ELSE IF dias_ate_vencimento = PyNone
    THEN Raised("TypeError")
    ELSE
      LET dentro_prazo == dias_ate_vencimento.v <= 730
      IN  IF ~dentro_prazo
          THEN [estado |-> "returned", status |-> "ALERTA",
                data_vencimento |-> data_vencimento,
                dias_ate_vencimento |-> dias_ate_vencimento,
                dentro_prazo_2anos |-> FALSE,
                alerta |-> Msg(<<"Contrato vence em", dias_ate_vencimento.v,
                                 "dias (>2 anos). Revisar necessidade de parecer.">>),
                acao_requerida |-> Msg("Verificar se renovação antecipada é necessária")]
          ELSE [estado |-> "returned", status |-> "OK",
                data_vencimento |-> data_vencimento,
                dias_ate_vencimento |-> dias_ate_vencimento,
                dentro_prazo_2anos |-> TRUE, alerta |-> PyNone, acao_requerida |-> PyNone]

(***************************************************************************)
(* The lookup tools as a state machine: a process with the stores loaded,   *)
(* its repository caches as earlier calls left them, in which one tool is  *)
(* called.                                                                 *)
(***************************************************************************)
\* datetime.now() at a call, in half days since the import: the same day,
\* exactly one day later, some 200 days later, after the contracts expired
Relogios == {1, 2, 401, 2000}

\* the tax IDs passed to the tools
CnpjsConsultados == CnpjArgs \cup Formatacoes(Cnpj_CloudProvider)

ApiIds == {"API-001", "API-002", "API-004", "API-900", "API-999"}

TiposServico ==
    {PyNone, PyStr(<<>>), PyStr(<<"C", "l", "o", "u", "d">>),
     PyStr(<<"S", "T", "O", "R", "A", "G", "E">>), PyStr(S_ApiCrm), PyStr(<<"X">>)}

DatasVencimento == {PyNone, PyStr(<<>>), DataIso(1080)}
DiasAteVencimento ==
    {PyNone, PyInt(-10), PyInt(0), PyInt(729), PyInt(730), PyInt(731), PyInt(900)}

OutrosRepositorios ==
    [onetrust |-> "OutroOneTrustRepository", cmdb |-> "OutroCMDBRepository",
     historico |-> "OutroHistoricoRepository"]

\* what the backend behind a cached repository can do with a query
FalhasDe(cache, outro) == IF cache = outro THEN FalhasConsulta ELSE {"ausente"}

\* what a repository cache can hold when a tool is called: nothing yet,
\* the mock an earlier call created (USE_MOCK permitting), or another
\* implementation
CachesDe(env, mock, outro) ==
    {None, outro} \cup
    (IF Lower(IF env = None THEN "true" ELSE env) = "true" THEN {mock} ELSE {})

InitConsulta ==
    /\ SugerirParado
    /\ AgenteParado
    /\ dados_completos = <<>>
    /\ registro = Pendente
    /\ parecer_repo = None
    /\ save_calls = <<>>
    /\ USE_MOCK \in UseMockValores
    /\ ONETRUST_DATABASE = Onetrust_Mock
    /\ \E par \in {<<Cmdb_Mock, Historico_Mock>>, <<Cmdb_SemDirecionador, Historico_Longo>>} :
          CMDB_DATABASE = par[1] /\ HISTORICO_PARECERES = par[2]
    /\ onetrust_repo \in CachesDe(USE_MOCK, "MockOneTrustRepository", OutrosRepositorios.onetrust)
    /\ cmdb_repo \in CachesDe(USE_MOCK, "MockCMDBRepository", OutrosRepositorios.cmdb)
    /\ historico_repo \in
           CachesDe(USE_MOCK, "MockHistoricoRepository", OutrosRepositorios.historico)
    /\ chamada = [ferramenta |-> "nenhuma"]
    /\ retorno = Pendente
    /\ repo_args = <<>>

ForaDaConsulta ==
    <<ultimo_parecer, dados_requisicao, resultado, dados_completos, registro,
      USE_MOCK, parecer_repo, save_calls>>

\* One call of each tool: what it leaves in the lookup variables.

IntegrarOnetrustCom(cnpj, agora, falha) ==
    LET r == integrar_onetrust(cnpj, onetrust_repo, USE_MOCK, ONETRUST_DATABASE, agora, falha)
    IN  /\ chamada' = [ferramenta |-> "integrar_onetrust", cnpj |-> cnpj,
                       agora |-> agora, falha |-> falha, cache |-> onetrust_repo]
        /\ retorno' = r.ret
        /\ onetrust_repo' = r.cache
        /\ ONETRUST_DATABASE' = r.store
        /\ repo_args' = r.args
        /\ UNCHANGED <<CMDB_DATABASE, HISTORICO_PARECERES, cmdb_repo, historico_repo>>

ConsultarCmdbCom(api_id, falha) ==
    LET r == consultar_cmdb(api_id, cmdb_repo, USE_MOCK, CMDB_DATABASE, falha)
    IN  /\ chamada' = [ferramenta |-> "consultar_cmdb", api_id |-> api_id,
                       falha |-> falha, cache |-> cmdb_repo]
        /\ retorno' = r.ret
        /\ cmdb_repo' = r.cache
        /\ CMDB_DATABASE' = r.store
        /\ repo_args' = r.args
        /\ UNCHANGED <<ONETRUST_DATABASE, HISTORICO_PARECERES, onetrust_repo, historico_repo>>

CarregarInsumosCom(cnpj, tipo_servico, falha) ==
    LET r == carregar_insumos(cnpj, tipo_servico, historico_repo, USE_MOCK,
                              HISTORICO_PARECERES, falha)
    IN  /\ chamada' = [ferramenta |-> "carregar_insumos", cnpj |-> cnpj,
                       tipo_servico |-> tipo_servico, falha |-> falha,
                       cache |-> historico_repo]
        /\ retorno' = r.ret
        /\ historico_repo' = r.cache
        /\ HISTORICO_PARECERES' = r.store
        /\ repo_args' = r.args
        /\ UNCHANGED <<ONETRUST_DATABASE, CMDB_DATABASE, onetrust_repo, cmdb_repo>>

CarregarRessalvasCom(cnpj, falha) ==
    LET r == carregar_ressalvas(cnpj, historico_repo, USE_MOCK, HISTORICO_PARECERES, falha)
    IN  /\ chamada' = [ferramenta |-> "carregar_ressalvas", cnpj |-> cnpj,
                       falha |-> falha, cache |-> historico_repo]
        /\ retorno' = r.ret
        /\ historico_repo' = r.cache
        /\ HISTORICO_PARECERES' = r.store
        /\ repo_args' = r.args
        /\ UNCHANGED <<ONETRUST_DATABASE, CMDB_DATABASE, onetrust_repo, cmdb_repo>>

CapturarVencimentoCom(data_vencimento, dias_ate_vencimento) ==
    /\ chamada' = [ferramenta |-> "capturar_vencimento",
                   data_vencimento |-> data_vencimento,
                   dias_ate_vencimento |-> dias_ate_vencimento]
    /\ retorno' = capturar_vencimento(data_vencimento, dias_ate_vencimento)
    /\ repo_args' = <<>>
    /\ UNCHANGED <<ONETRUST_DATABASE, CMDB_DATABASE, HISTORICO_PARECERES,
                   onetrust_repo, cmdb_repo, historico_repo>>

IntegrarOnetrust ==
    /\ chamada.ferramenta = "nenhuma"
    /\ \E cnpj \in CnpjsConsultados, agora \in Relogios,
          falha \in FalhasDe(onetrust_repo, OutrosRepositorios.onetrust) :
          IntegrarOnetrustCom(cnpj, agora, falha)
    /\ UNCHANGED ForaDaConsulta
    /\ UNCHANGED varsAgente
    /\ UNCHANGED <<threads, handler>>

ConsultarCmdb ==
    /\ chamada.ferramenta = "nenhuma"
    /\ \E api_id \in ApiIds, falha \in FalhasDe(cmdb_repo, OutrosRepositorios.cmdb) :
          ConsultarCmdbCom(api_id, falha)
    /\ UNCHANGED ForaDaConsulta
    /\ UNCHANGED varsAgente
    /\ UNCHANGED <<threads, handler>>

CarregarInsumos ==
    /\ chamada.ferramenta = "nenhuma"
    /\ \E cnpj \in CnpjsConsultados, tipo_servico \in TiposServico,
          falha \in FalhasDe(historico_repo, OutrosRepositorios.historico) :
          CarregarInsumosCom(cnpj, tipo_servico, falha)
    /\ UNCHANGED ForaDaConsulta
    /\ UNCHANGED varsAgente
    /\ UNCHANGED <<threads, handler>>

CarregarRessalvas ==
    /\ chamada.ferramenta = "nenhuma"
    /\ \E cnpj \in CnpjsConsultados,
          falha \in FalhasDe(historico_repo, OutrosRepositorios.historico) :
          CarregarRessalvasCom(cnpj, falha)
    /\ UNCHANGED ForaDaConsulta
    /\ UNCHANGED varsAgente
    /\ UNCHANGED <<threads, handler>>

CapturarVencimento ==
    /\ chamada.ferramenta = "nenhuma"
    /\ \E data_vencimento \in DatasVencimento, dias_ate_vencimento \in DiasAteVencimento :
          CapturarVencimentoCom(data_vencimento, dias_ate_vencimento)
    /\ UNCHANGED ForaDaConsulta
    /\ UNCHANGED varsAgente
    /\ UNCHANGED <<threads, handler>>

NextConsulta ==
    \/ IntegrarOnetrust
    \/ ConsultarCmdb
    \/ CarregarInsumos
    \/ CarregarRessalvas
    \/ CapturarVencimento

SpecConsulta == InitConsulta /\ [][NextConsulta]_vars

(***************************************************************************)
(* root_agent (agent.py): one session about one request.  The language     *)
(* model behind the agent is given the seven tools and the instruction     *)
(* text; which tool it calls next, and with which arguments, is its own    *)
(* choice.  The arguments here come from the request and from the results  *)
(* of earlier calls of the session.                                        *)
(***************************************************************************)
\* the requests of the model: renewals for a supplier whose contract
\* record has no expiration date, for one with caveats on record, and for
\* one whose contract expires in some 900 days
Requisicoes ==
    {[tipo_requisicao |-> "Renovação", cnpj |-> c, api_id |-> "API-002",
      nome_fornecedor |-> "Fornecedor"] :
        c \in {"11.222.333/0001-44", "98765432000101", "11223344000155"}}

\* the results of the calls of tool f that returned
ResultadosDe(f) ==
    {fluxo[k].retorno : k \in {j \in 1..Len(fluxo) :
        fluxo[j].chamada.ferramenta = f /\ fluxo[j].retorno.estado = "returned"}}

\* the contract records an integrar_onetrust of the session found
ContratosObtidos == {r \in ResultadosDe("integrar_onetrust") : r.encontrado}

\* direcionador as the session knows it
DirecionadoresObtidos ==
    {None} \cup {r.direcionador : r \in {x \in ResultadosDe("consultar_cmdb") : x.encontrado}}

\* parecer_anterior as the session knows it
PareceresObtidos ==
    {PaNone} \cup
    {PaDict(r.parecer_anterior.tipo_parecer, r.ressalvas) :
        r \in {x \in ResultadosDe("carregar_ressalvas") : x.parecer_anterior_encontrado}}

\* MockParecerRepository.save filing the record as the supplier's most
\* recent opinion
MockSaveHistorico_Arquiva(db, dados) ==
    LET cnpj == CnpjClean(Texto(dados.cnpj))
        novo == ParecerAnterior("PAR-NOVO", "2025-01-01", dados.parecer_sugerido,
                                dados.ressalvas, cnpj, S_CloudStorage)
    IN  (cnpj :> (<<novo>> \o DictGet(db, cnpj, <<>>))) @@ db

\* HISTORICO_PARECERES as MockParecerRepository.save(dados) leaves it: the
\* method builds its confirmation and returns; it writes to no store
MockSaveHistorico(db, dados) == db

\* the dict the agent registers for the request
DadosDoRegistro ==
    [cnpj |-> requisicao.cnpj, nome_fornecedor |-> requisicao.nome_fornecedor,
     api_id |-> requisicao.api_id, tipo_requisicao |-> requisicao.tipo_requisicao,
     parecer_sugerido |-> "Parecer Favorável com Ressalvas",
     justificativa |-> "Aprovado com ressalvas.", ressalvas |-> <<>>]

InitAgente ==
    /\ requisicao \in Requisicoes
    /\ fluxo = <<>>
    /\ threads = <<>>
    /\ handler = SemHandler
    /\ ultimo_parecer = SemParecer
    /\ dados_requisicao = Bundle(None, <<>>, None, None, PaNone, FALSE)
    /\ resultado = Pendente
    /\ dados_completos = <<>>
    /\ registro = Pendente
    /\ USE_MOCK \in {None, "false"}
    /\ parecer_repo = None
    /\ save_calls = <<>>
    /\ ONETRUST_DATABASE = Onetrust_Mock
    /\ CMDB_DATABASE = Cmdb_Mock
    /\ HISTORICO_PARECERES \in {Historico_Mock, Historico_Longo}
    /\ onetrust_repo = None
    /\ cmdb_repo = None
    /\ historico_repo = None
    /\ chamada = [ferramenta |-> "nenhuma"]
    /\ retorno = Pendente
    /\ repo_args = <<>>

\* the call just made joins the session's events
Registra == fluxo' = Append(fluxo, [chamada |-> chamada', retorno |-> retorno'])

AgenteIntegrarOnetrust ==
    /\ Len(fluxo) < MaxChamadas
    /\ IntegrarOnetrustCom(Texto(requisicao.cnpj), 1, "ausente")
    /\ Registra
    /\ UNCHANGED ForaDaConsulta
    /\ UNCHANGED <<requisicao, threads, handler>>

AgenteConsultarCmdb ==
    /\ Len(fluxo) < MaxChamadas
    /\ ConsultarCmdbCom(requisicao.api_id, "ausente")
    /\ Registra
    /\ UNCHANGED ForaDaConsulta
    /\ UNCHANGED <<requisicao, threads, handler>>

AgenteCarregarInsumos ==
    /\ Len(fluxo) < MaxChamadas
    /\ CarregarInsumosCom(Texto(requisicao.cnpj), PyStr(<<"C", "l", "o", "u", "d">>), "ausente")
    /\ Registra
    /\ UNCHANGED ForaDaConsulta
    /\ UNCHANGED <<requisicao, threads, handler>>

AgenteCarregarRessalvas ==
    /\ Len(fluxo) < MaxChamadas
    /\ CarregarRessalvasCom(Texto(requisicao.cnpj), "ausente")
    /\ Registra
    /\ UNCHANGED ForaDaConsulta
    /\ UNCHANGED <<requisicao, threads, handler>>

AgenteCapturarVencimento ==
    /\ Len(fluxo) < MaxChamadas
    /\ \E contrato \in ContratosObtidos :
          CapturarVencimentoCom(contrato.data_vencimento_contrato,
                                contrato.dias_ate_vencimento)
    /\ Registra
    /\ UNCHANGED ForaDaConsulta
    /\ UNCHANGED <<requisicao, threads, handler>>

AgenteSugerirParecer ==
    /\ Len(fluxo) < MaxChamadas
    /\ \E dr \in DirecionadoresObtidos, pa \in PareceresObtidos, a \in BOOLEAN :
          LET dados == Bundle(requisicao.tipo_requisicao, <<"REST">>, "OUTBOUND", dr, pa, a)
          IN  /\ chamada' = [ferramenta |-> "sugerir_parecer", dados_requisicao |-> dados]
              /\ retorno' = sugerir_parecer(dados)
              /\ dados_requisicao' = sugerir_parecer_dados(dados)
              /\ resultado' = retorno'
    /\ repo_args' = <<>>
    /\ Registra
    /\ UNCHANGED <<ONETRUST_DATABASE, CMDB_DATABASE, HISTORICO_PARECERES,
                   onetrust_repo, cmdb_repo, historico_repo>>
    /\ UNCHANGED <<ultimo_parecer, requisicao, threads, handler>>
    /\ UNCHANGED varsRegistrar

AgenteRegistrarParecer ==
    /\ Len(fluxo) < MaxChamadas
    /\ LET r == registrar_parecer(DadosDoRegistro, parecer_repo, USE_MOCK, 2025,
                                  UuidStr(<<"a", "1", "b", "2", "c", "3", "d", "4">>), 2025,
                                  UuidStr(<<"0", "9", "f", "e", "7", "7", "0", "0">>), "recusa")
       IN  /\ chamada' = [ferramenta |-> "registrar_parecer",
                          dados_completos |-> DadosDoRegistro]
           /\ retorno' = r.ret
           /\ dados_completos' = DadosDoRegistro
           /\ registro' = r.ret
           /\ parecer_repo' = r.cache
           /\ save_calls' = save_calls \o r.saved
           /\ HISTORICO_PARECERES' =
                  IF r.saved # <<>> /\ r.cache = "MockParecerRepository"
                  THEN MockSaveHistorico(HISTORICO_PARECERES, r.saved[1])
                  ELSE HISTORICO_PARECERES
    /\ repo_args' = <<>>
    /\ Registra
    /\ UNCHANGED <<ONETRUST_DATABASE, CMDB_DATABASE, onetrust_repo, cmdb_repo,
                   historico_repo>>
    /\ UNCHANGED <<USE_MOCK, requisicao, threads, handler>>
    /\ UNCHANGED varsSugerir

NextAgente ==
    \/ AgenteIntegrarOnetrust
    \/ AgenteConsultarCmdb
    \/ AgenteCarregarInsumos
    \/ AgenteCarregarRessalvas
    \/ AgenteCapturarVencimento
    \/ AgenteSugerirParecer
    \/ AgenteRegistrarParecer

SpecAgente == InitAgente /\ [][NextAgente]_vars

(***************************************************************************)
(* Concurrent callers.  Each caller runs one tool call; the interpreter    *)
(* may switch callers between the steps of get_*_repository(): the test    *)
(* of the global, the assignment of the new instance, the read of the      *)
(* global for the return, and the call of the repository.  A cached        *)
(* repository is held here with the caller that created it (inst), so      *)
(* that two instances of one class are told apart.                         *)
(***************************************************************************)
Chamadores == 1..NumChamadores

\* the calls the callers make
ChamadasConcorrentes ==
    {[ferramenta |-> "integrar_onetrust", cnpj |-> Cnpj_TechSolutions, agora |-> 1],
     [ferramenta |-> "integrar_onetrust", cnpj |-> Formatado(Cnpj_Analytics), agora |-> 401],
     [ferramenta |-> "consultar_cmdb", api_id |-> "API-001"],
     [ferramenta |-> "carregar_insumos", cnpj |-> Cnpj_CloudData,
      tipo_servico |-> PyStr(<<"C", "l", "o", "u", "d">>)],
     [ferramenta |-> "carregar_ressalvas", cnpj |-> Cnpj_CloudData],
     [ferramenta |-> "sugerir_parecer", dados_requisicao |->
         Bundle("Renovação", <<"REST">>, "OUTBOUND", "Manter",
                PaDict("Parecer Favorável com Ressalvas", RessalvasCloud), TRUE)]}

\* a repository global that holds nothing, and one that holds an instance
SemInstancia == [classe |-> None]
Instancia(classe, t) == [classe |-> classe, inst |-> t]

\* the global a tool's factory works on
CacheDe(f) ==
    IF f = "integrar_onetrust" THEN onetrust_repo
    ELSE IF f = "consultar_cmdb" THEN cmdb_repo
    ELSE historico_repo

\* assignment to that global
AtribuiCache(f, v) ==
    /\ onetrust_repo' = IF f = "integrar_onetrust" THEN v ELSE onetrust_repo
    /\ cmdb_repo' = IF f = "consultar_cmdb" THEN v ELSE cmdb_repo
    /\ historico_repo' =
           IF f \in {"carregar_insumos", "carregar_ressalvas"} THEN v ELSE historico_repo

\* the body of the factory under "if _repo is None"
Fabrica(f) ==
    IF f = "integrar_onetrust" THEN get_onetrust_repository(None, USE_MOCK)
    ELSE IF f = "consultar_cmdb" THEN get_cmdb_repository(None, USE_MOCK)
    ELSE get_historico_repository(None, USE_MOCK)

\* the factory returning the value it saw at the test of the global
RepositorioDevolvido_Visto(cache, visto) == visto

\* return _repo: the global as it is at the return
RepositorioDevolvido(cache, visto) == cache

\* the tool call c carried out on repository class classe: the value
\* returned and the stores afterwards.  A repository that is None has no
\* get, search or get_last_parecer: the call inside the try raises
\* AttributeError.
Corpo(c, classe, onetrust, cmdb, historico) ==
    LET rep == IF classe = None THEN "NoneType" ELSE classe
        falha == IF classe = None THEN "AttributeError" ELSE "ausente"
    IN  IF c.ferramenta = "integrar_onetrust"
        THEN LET r == integrar_onetrust(c.cnpj, rep, USE_MOCK, onetrust, c.agora, falha)
             IN  [ret |-> r.ret, onetrust |-> r.store, cmdb |-> cmdb, historico |-> historico]
        ELSE IF c.ferramenta = "consultar_cmdb"
        THEN LET r == consultar_cmdb(c.api_id, rep, USE_MOCK, cmdb, falha)
             IN  [ret |-> r.ret, onetrust |-> onetrust, cmdb |-> r.store, historico |-> historico]
        ELSE IF c.ferramenta = "carregar_insumos"
        THEN LET r == carregar_insumos(c.cnpj, c.tipo_servico, rep, USE_MOCK, historico, falha)
             IN  [ret |-> r.ret, onetrust |-> onetrust, cmdb |-> cmdb, historico |-> r.store]
        ELSE LET r == carregar_ressalvas(c.cnpj, rep, USE_MOCK, historico, falha)
             IN  [ret |-> r.ret, onetrust |-> onetrust, cmdb |-> cmdb, historico |-> r.store]

InitConcorrente ==
    /\ SugerirParado
    /\ requisicao = [tipo_requisicao |-> None]
    /\ fluxo = <<>>
    /\ dados_completos = <<>>
    /\ registro = Pendente
    /\ parecer_repo = None
    /\ save_calls = <<>>
    /\ USE_MOCK \in {None, "false"}
    /\ ONETRUST_DATABASE = Onetrust_Mock
    /\ CMDB_DATABASE = Cmdb_Mock
    /\ HISTORICO_PARECERES = Historico_Mock
    /\ onetrust_repo = SemInstancia
    /\ cmdb_repo = SemInstancia
    /\ historico_repo = SemInstancia
    /\ chamada = [ferramenta |-> "nenhuma"]
    /\ retorno = Pendente
    /\ repo_args = <<>>
    /\ handler = SemHandler
    /\ threads \in [Chamadores ->
           {[pc |-> "inicio", chamada |-> c, visto |-> SemInstancia,
             repo |-> SemInstancia, resultado |-> Pendente] : c \in ChamadasConcorrentes}]

ForaDosChamadores ==
    <<ultimo_parecer, dados_requisicao, resultado, dados_completos, registro,
      USE_MOCK, parecer_repo, save_calls, chamada, retorno, repo_args, requisicao, fluxo,
      handler>>

\* if _repo is None
Verifica(t) ==
    /\ threads[t].pc = "inicio"
    /\ threads[t].chamada.ferramenta # "sugerir_parecer"
    /\ LET cache == CacheDe(threads[t].chamada.ferramenta)
       IN  threads' = [threads EXCEPT ![t].visto = cache,
                                      ![t].pc = IF cache.classe = None THEN "criar"
                                                ELSE "retornar"]
    /\ UNCHANGED <<onetrust_repo, cmdb_repo, historico_repo>>
    /\ UNCHANGED varsStores
    /\ UNCHANGED ForaDosChamadores

\* _repo = Mock...Repository(), or raise NotImplementedError
Cria(t) ==
    /\ threads[t].pc = "criar"
    /\ LET f == threads[t].chamada.ferramenta
           fab == Fabrica(f)
       IN  IF fab.raised
           THEN /\ threads' = [threads EXCEPT ![t].pc = "fim",
                                              ![t].resultado = Raised(fab.excecao)]
                /\ UNCHANGED <<onetrust_repo, cmdb_repo, historico_repo>>
           ELSE /\ threads' = [threads EXCEPT ![t].pc = "retornar"]
                /\ AtribuiCache(f, Instancia(fab.cache, t))
    /\ UNCHANGED varsStores
    /\ UNCHANGED ForaDosChamadores

\* return _repo
Retorna(t) ==
    /\ threads[t].pc = "retornar"
    /\ threads' = [threads EXCEPT
           ![t].repo = RepositorioDevolvido(CacheDe(threads[t].chamada.ferramenta),
                                            threads[t].visto),
           ![t].pc = "consultar"]
    /\ UNCHANGED <<onetrust_repo, cmdb_repo, historico_repo>>
    /\ UNCHANGED varsStores
    /\ UNCHANGED ForaDosChamadores

\* the try block of the tool
Consulta(t) ==
    /\ threads[t].pc = "consultar"
    /\ LET r == Corpo(threads[t].chamada, threads[t].repo.classe,
                      ONETRUST_DATABASE, CMDB_DATABASE, HISTORICO_PARECERES)
       IN  /\ threads' = [threads EXCEPT ![t].pc = "fim", ![t].resultado = r.ret]
           /\ ONETRUST_DATABASE' = r.onetrust
           /\ CMDB_DATABASE' = r.cmdb
           /\ HISTORICO_PARECERES' = r.historico
    /\ UNCHANGED <<onetrust_repo, cmdb_repo, historico_repo>>
    /\ UNCHANGED ForaDosChamadores

\* sugerir_parecer, which touches nothing shared
Sugere(t) ==
    /\ threads[t].pc = "inicio"
    /\ threads[t].chamada.ferramenta = "sugerir_parecer"
    /\ threads' = [threads EXCEPT
           ![t].pc = "fim",
           ![t].resultado = sugerir_parecer(threads[t].chamada.dados_requisicao)]
    /\ UNCHANGED <<onetrust_repo, cmdb_repo, historico_repo>>
    /\ UNCHANGED varsStores
    /\ UNCHANGED ForaDosChamadores

NextConcorrente ==
    \E t \in Chamadores :
        \/ Verifica(t)
        \/ Cria(t)
        \/ Retorna(t)
        \/ Consulta(t)
        \/ Sugere(t)

SpecConcorrente == InitConcorrente /\ [][NextConcorrente]_vars

(***************************************************************************)
(* Properties of sugerir_parecer (checked under SpecSugerir).              *)
(***************************************************************************)
Chamado == resultado # Pendente
Retornou == resultado.estado = "returned"

\* the class the thresholds 0.80 and 0.50 give a score of c hundredths
ClasseDe(c) ==
    IF c >= 80 THEN "Parecer Favorável"
    ELSE IF c >= 50 THEN "Parecer Favorável com Ressalvas"
    ELSE "Parecer Desfavorável"

\* C1: the opinion type is decided by the final score alone: a bundle
\* scoring 0.80 or more is Favorável, one scoring 0.50 or more (and under
\* 0.80) Favorável com Ressalvas, one under 0.50 Desfavorável.  The score
\* is the one the function reports.
C1_ClassificaPeloScore ==
    Retornou => resultado.parecer_sugerido = ClasseDe(resultado.score_confianca)

\* The deltas of the scoring table, in hundredths.
DeltaAnterior(d) ==
    IF d.tipo_requisicao = "Renovação" /\ d.parecer_anterior.forma # "None"
    THEN LET t == IF d.parecer_anterior.forma = "dict"
                  THEN d.parecer_anterior.tipo_parecer ELSE d.parecer_anterior.valor
         IN  CASE t = "Parecer Favorável" -> 30
               [] t = "Parecer Favorável com Ressalvas" -> 15
               [] t = "Parecer Desfavorável" -> -20
    ELSE 0

DeltaIntegracoes(d) ==
    LET l == d.integracoes_disponiveis
        moderna(x) == x \in {"REST", "rest", "WEBHOOK", "MENSAGERIA"}
    IN  IF Len(l) = 0 THEN 0
        ELSE (IF Len(l) >= 3 THEN 20 ELSE 10)
             + (IF \E k \in 1..Len(l) : moderna(l[k]) THEN 10 ELSE 0)

DeltaFluxo(d) ==
    CASE d.fluxo_dados = "BIDIRECIONAL" -> 15
      [] d.fluxo_dados \in {"INBOUND", "OUTBOUND"} -> 10
      [] OTHER -> 0

DeltaDirecionador(d) ==
    CASE d.direcionador = "Evoluir" -> 15
      [] d.direcionador = "Manter" -> 5
      [] d.direcionador = "Desinvestir" -> -20
      [] OTHER -> 0

DeltaArmazena(d) == IF d.armazena_dados_bv THEN -10 ELSE 0

SomaDeclarada(d) ==
    50 + DeltaAnterior(d) + DeltaIntegracoes(d) + DeltaFluxo(d)
       + DeltaDirecionador(d) + DeltaArmazena(d)

BundleFavoravel ==
    Bundle("Renovação", <<"REST", "WEBHOOK", "MENSAGERIA">>, "BIDIRECIONAL", "Evoluir",
           PaStr("Parecer Favorável"), FALSE)

BundleDesfavoravel ==
    Bundle("Nova Contratação", <<>>, None, "Desinvestir", PaNone, TRUE)

C3_NuncaLevanta == resultado.estado # "raised"

\* C4: the reported score_confianca lies in [0, 1].
C4_ScoreEntre0e1 ==
    Retornou => resultado.score_confianca >= 0 /\ resultado.score_confianca <= 100

\* C5: whenever the call returns, parecer_sugerido is one of the three
\* opinion types.
C5_TipoParecerValido == Retornou => resultado.parecer_sugerido \in TipoParecer

C5_Witness == Retornou /\ resultado.parecer_sugerido = "Parecer Desfavorável"

\* a caveat that mentions 'Desinvestir'
MencionaDesinvestir(r) == r = RessalvaDesinvestir
\* the data-protection/LGPD compliance caveat
MencionaLGPD(r) == r = RessalvaLGPD

Contem(l, P(_)) == \E k \in 1..Len(l) : P(l[k])

\* C6: every bundle with direcionador 'Desinvestir' gets a ressalvas list
\* with a caveat mentioning 'Desinvestir', whatever the opinion type.
C6_RessalvaDesinvestir ==
    (Chamado /\ dados_requisicao.direcionador = "Desinvestir") =>
        Retornou /\ Contem(resultado.ressalvas, MencionaDesinvestir)

C6_Witness ==
    /\ dados_requisicao.direcionador = "Desinvestir"
    /\ Retornou
    /\ resultado.parecer_sugerido = "Parecer Favorável"
    /\ Contem(resultado.ressalvas, MencionaDesinvestir)

\* C7: every bundle with armazena_dados_bv true gets a ressalvas list with
\* the data-protection/LGPD caveat, whatever the opinion type.
C7_RessalvaLGPD ==
    (Chamado /\ dados_requisicao.armazena_dados_bv) =>
        Retornou /\ Contem(resultado.ressalvas, MencionaLGPD)

\* the case of C8: a Renewal whose stored prior opinion is Favorável com
\* Ressalvas and carries caveats, handed over in either form
RenovacaoComRessalvas ==
    /\ Chamado
    /\ dados_requisicao.tipo_requisicao = "Renovação"
    /\ ultimo_parecer.existe
    /\ ultimo_parecer.tipo_parecer = "Parecer Favorável com Ressalvas"
    /\ ultimo_parecer.ressalvas # <<>>
    /\ dados_requisicao.parecer_anterior.forma # "None"

TodasAsAnteriores ==
    \A k \in 1..Len(ultimo_parecer.ressalvas) :
        \E j \in 1..Len(resultado.ressalvas) :
            resultado.ressalvas[j] = ultimo_parecer.ressalvas[k]

NenhumaAnterior ==
    \A k \in 1..Len(ultimo_parecer.ressalvas) :
        \A j \in 1..Len(resultado.ressalvas) :
            resultado.ressalvas[j] # ultimo_parecer.ressalvas[k]

Registrou == registro # Pendente

\* a required field the caller gave no value for
Ausente(d, campo) == d[campo] \in {None, ""}

AusentesDe(d) == SelectSeq(required_fields, LAMBDA campo : Ausente(d, campo))

\* C9: with any required field absent the call returns sucesso=False,
\* erro CAMPOS_OBRIGATORIOS_AUSENTES and campos_faltantes listing exactly
\* the absent fields; save is not invoked, no record is created and the
\* repository is not even obtained.
C9_FalhaFechada ==
    (Registrou /\ AusentesDe(dados_completos) # <<>>) =>
        /\ registro.estado = "returned"
        /\ registro.sucesso = FALSE
        /\ registro.erro = "CAMPOS_OBRIGATORIOS_AUSENTES"
        /\ registro.campos_faltantes = AusentesDe(dados_completos)
        /\ save_calls = <<>>

C9_Witness ==
    /\ Registrou
    /\ AusentesDe(dados_completos) = <<"justificativa">>
    /\ registro.campos_faltantes = <<"justificativa">>
    /\ save_calls = <<>>

HexMaiusculo == {"0", "1", "2", "3", "4", "5", "6", "7", "8", "9", "A", "B", "C", "D", "E", "F"}
Decimal == {"0", "1", "2", "3", "4", "5", "6", "7", "8", "9"}

\* PAR-<4-digit year>-<8 uppercase hex characters>
FormatoParecerId(id) ==
    /\ Len(id) = 17
    /\ SubSeq(id, 1, 4) = <<"P", "A", "R", "-">>
    /\ \A k \in 5..8 : id[k] \in Decimal
    /\ id[9] = "-"
    /\ \A k \in 10..17 : id[k] \in HexMaiusculo

\* the repository in use accepts the write: it is the mock
BackendAceita == parecer_repo = "MockParecerRepository"

\* C10: with the six required fields present and a backend that accepts
\* the write, save is invoked exactly once and the call returns
\* sucesso=True, a parecer_id of the form PAR-YYYY-XXXXXXXX, status
\* REGISTRADO and proximo_status AGUARDANDO_REVISAO_ANALISTA.
C10_RegistroAceito ==
    (Registrou /\ AusentesDe(dados_completos) = <<>> /\ BackendAceita) =>
        /\ Len(save_calls) = 1
        /\ registro.estado = "returned"
        /\ registro.sucesso = TRUE
        /\ FormatoParecerId(registro.parecer_id)
        /\ registro.status = "REGISTRADO"
        /\ registro.proximo_status = "AGUARDANDO_REVISAO_ANALISTA"

C10_Witness ==
    /\ Registrou
    /\ AusentesDe(dados_completos) = <<>>
    /\ registro.estado = "returned"
    /\ registro.sucesso = TRUE
    /\ Len(save_calls) = 1
    /\ \E k \in 10..17 : registro.parecer_id[k] \in {"A", "B", "C", "D", "E", "F"}

(***************************************************************************)
(* Properties of the tax-ID handling.                                      *)
(***************************************************************************)
\* exactly 14 characters, every one a digit
CatorzeDigitos(s) == Len(s) = 14 /\ \A k \in 1..Len(s) : s[k] \in Decimal

\* C11: every tax ID that reaches a repository lookup or the repository
\* save has had its non-digit characters stripped and consists of exactly
\* 14 digits.  Here: the cnpj of every record handed to save.
C11_CnpjNormalizado ==
    \A k \in 1..Len(save_calls) : CatorzeDigitos(Texto(save_calls[k].cnpj))


\* the digits of a string, in order
SoDigitos(s) == SelectSeq(s, LAMBDA ch : ch \in Decimal)

\* a 14-digit tax ID written with any number of '.', '/' and '-' separators
EhFormatacao(s) ==
    /\ \A k \in 1..Len(s) : s[k] \in Decimal \cup {".", "/", "-"}
    /\ Len(SoDigitos(s)) = 14

\* the result of the lookup recorded in chamada, had it been given cnpj
RetornoPara(cnpj) ==
    IF chamada.ferramenta = "integrar_onetrust"
    THEN integrar_onetrust(cnpj, chamada.cache, USE_MOCK, ONETRUST_DATABASE,
                           chamada.agora, chamada.falha).ret
    ELSE IF chamada.ferramenta = "carregar_insumos"
    THEN carregar_insumos(cnpj, chamada.tipo_servico, chamada.cache, USE_MOCK,
                          HISTORICO_PARECERES, chamada.falha).ret
    ELSE carregar_ressalvas(cnpj, chamada.cache, USE_MOCK, HISTORICO_PARECERES,
                            chamada.falha).ret

ConsultaPorCnpj ==
    chamada.ferramenta \in {"integrar_onetrust", "carregar_insumos", "carregar_ressalvas"}

\* C12: integrar_onetrust, carregar_insumos and carregar_ressalvas called
\* with a 14-digit tax ID written with '.', '/' and '-' separators return
\* what they return for the bare 14 digits (same clock, same backend), and
\* a cnpj field in the result holds the bare 14 digits.
C12_FormatacaoIndiferente ==
    (ConsultaPorCnpj /\ EhFormatacao(chamada.cnpj)) =>
        /\ retorno = RetornoPara(SoDigitos(chamada.cnpj))
        /\ (retorno.estado = "returned" /\ "cnpj" \in DOMAIN retorno) =>
               retorno.cnpj = SoDigitos(chamada.cnpj)

\* the formatted ID of a registered supplier was looked up and found
C12_Witness ==
    /\ chamada.ferramenta = "integrar_onetrust"
    /\ chamada.cnpj = Formatado(Cnpj_TechSolutions)
    /\ retorno.estado = "returned"
    /\ retorno.encontrado
    /\ retorno.cnpj = Cnpj_TechSolutions
    /\ retorno.dias_ate_vencimento = PyInt(539)


(***************************************************************************)
(* Properties of the lookup tools (checked under SpecConsulta).            *)
(***************************************************************************)
ConsultaARepositorio ==
    chamada.ferramenta \in
        {"integrar_onetrust", "consultar_cmdb", "carregar_insumos", "carregar_ressalvas"}

\* C15: no failure of a lookup backend leaves integrar_onetrust,
\* consultar_cmdb, carregar_insumos or carregar_ressalvas as a raised
\* exception: whatever the backend does, and whatever backend USE_MOCK
\* selects, the caller gets a structured result.
C15_NenhumaExcecaoAtravessa ==
    ConsultaARepositorio => retorno.estado = "returned"

\* what the backend did with the query of the call: it held the record
\* ("presente"), held none ("ausente"), or raised (the exception's name)
BackendFez ==
    IF chamada.cache \in {OutrosRepositorios.onetrust, OutrosRepositorios.cmdb}
    THEN chamada.falha
    ELSE IF chamada.ferramenta = "integrar_onetrust"
    THEN (IF CnpjClean(chamada.cnpj) \in DOMAIN ONETRUST_DATABASE
          THEN "presente" ELSE "ausente")
    ELSE (IF chamada.api_id \in DOMAIN CMDB_DATABASE THEN "presente" ELSE "ausente")

\* C16: integrar_onetrust and consultar_cmdb tell their failures apart in
\* the erro field: an absent record gives encontrado False and no erro, a
\* TimeoutError gives erro TIMEOUT, a ConnectionError gives erro
\* CONNECTION_ERROR, any other exception of the backend gives erro
\* UNKNOWN; each of these results has encontrado False and an
\* acao_requerida.
C16_FalhasDistinguidas ==
    (/\ chamada.ferramenta \in {"integrar_onetrust", "consultar_cmdb"}
     /\ retorno.estado = "returned"
     /\ BackendFez # "presente") =>
        /\ retorno.encontrado = FALSE
        /\ "acao_requerida" \in DOMAIN retorno
        /\ BackendFez = "ausente" => "erro" \notin DOMAIN retorno
        /\ BackendFez # "ausente" =>
               /\ "erro" \in DOMAIN retorno
               /\ retorno.erro = (CASE BackendFez = "TimeoutError" -> "TIMEOUT"
                                    [] BackendFez = "ConnectionError" -> "CONNECTION_ERROR"
                                    [] OTHER -> "UNKNOWN")

\* the catalog backend timed out and the caller was told so
C16_Witness ==
    /\ chamada.ferramenta = "consultar_cmdb"
    /\ chamada.cache = OutrosRepositorios.cmdb
    /\ chamada.falha = "TimeoutError"
    /\ retorno.estado = "returned"
    /\ retorno.erro = "TIMEOUT"
    /\ ~retorno.encontrado

\* carregar_ressalvas was called and its repository was the store-backed one
RessalvasDoHistorico ==
    /\ chamada.ferramenta = "carregar_ressalvas"
    /\ retorno.estado = "returned"
    /\ chamada.cache # OutrosRepositorios.historico

\* the stored history list of the tax ID of the call
ListaArmazenada == DictGet(HISTORICO_PARECERES, CnpjClean(chamada.cnpj), <<>>)

\* the history store with that list cut down to its first element
SoOPrimeiro ==
    IF ListaArmazenada = <<>> THEN HISTORICO_PARECERES
    ELSE [HISTORICO_PARECERES EXCEPT ![CnpjClean(chamada.cnpj)] = <<ListaArmazenada[1]>>]

\* C17: carregar_ressalvas decides on the first element of the stored list:
\* no entry gives tem_ressalvas False and parecer_anterior_encontrado False;
\* a first entry without caveats gives tem_ressalvas False,
\* parecer_anterior_encontrado True and a summary of that entry; a first
\* entry with caveats gives tem_ressalvas True, that entry's caveats and the
\* recommendation to include them again.  The flags take no other
\* combination, and the later entries of the list do not influence the
\* result.
C17_DecidePeloPrimeiro ==
    /\ (chamada.ferramenta = "carregar_ressalvas" /\ retorno.estado = "returned") =>
           <<retorno.tem_ressalvas, retorno.parecer_anterior_encontrado>> \in
               {<<FALSE, FALSE>>, <<FALSE, TRUE>>, <<TRUE, TRUE>>}
    /\ RessalvasDoHistorico =>
        /\ ListaArmazenada = <<>> =>
               /\ ~retorno.tem_ressalvas
               /\ ~retorno.parecer_anterior_encontrado
               /\ retorno.ressalvas = <<>>
        /\ (ListaArmazenada # <<>> /\ ListaArmazenada[1].ressalvas = <<>>) =>
               /\ ~retorno.tem_ressalvas
               /\ retorno.parecer_anterior_encontrado
               /\ retorno.ressalvas = <<>>
               /\ retorno.parecer_anterior =
                      [parecer_id |-> ListaArmazenada[1].parecer_id,
                       data_parecer |-> ListaArmazenada[1].data_parecer,
                       tipo_parecer |-> ListaArmazenada[1].tipo_parecer]
        /\ (ListaArmazenada # <<>> /\ ListaArmazenada[1].ressalvas # <<>>) =>
               /\ retorno.tem_ressalvas
               /\ retorno.parecer_anterior_encontrado
               /\ retorno.ressalvas = ListaArmazenada[1].ressalvas
               /\ retorno.parecer_anterior.parecer_id = ListaArmazenada[1].parecer_id
               /\ retorno.acao_requerida = AcaoIncluirRessalvas
        /\ retorno = carregar_ressalvas(chamada.cnpj, chamada.cache, USE_MOCK, SoOPrimeiro,
                                        chamada.falha).ret

\* a list of seven entries whose first has no caveats and whose third has
C17_Witness ==
    /\ RessalvasDoHistorico
    /\ Len(ListaArmazenada) = 7
    /\ ListaArmazenada[3].ressalvas # <<>>
    /\ ~retorno.tem_ressalvas
    /\ retorno.parecer_anterior_encontrado
    /\ retorno.parecer_anterior.parecer_id = "PAR-2024-107"

\* carregar_insumos was called and its repository was the store-backed one
InsumosDoHistorico ==
    /\ chamada.ferramenta = "carregar_insumos"
    /\ retorno.estado = "returned"
    /\ chamada.cache # OutrosRepositorios.historico

\* the stored entries of the tax ID of the call whose service type contains
\* the queried one, letter case aside, in stored order
Casam ==
    SelectSeq(ListaArmazenada,
              LAMBDA p : Contido(LowerSeq(chamada.tipo_servico.chars), LowerSeq(p.tipo_servico)))

\* C18: carregar_insumos returns, in stored order, only entries of the
\* normalized tax ID whose service type contains the queried one as a
\* case-insensitive substring, at most 5 of them, total_encontrados being
\* the number returned and the positive-history suggestion being present
\* exactly when a returned entry is Favorável; for a tax ID without history
\* it returns total 0 and empty lists, and no error.
C18_InsumosFiltrados ==
    InsumosDoHistorico =>
        /\ Len(retorno.pareceres_similares) <= 5
        /\ retorno.total_encontrados = Len(retorno.pareceres_similares)
        /\ "erro" \notin DOMAIN retorno =>
               /\ retorno.pareceres_similares =
                      [k \in 1..(IF Len(Casam) < 5 THEN Len(Casam) ELSE 5) |-> Resumo(Casam[k])]
               /\ (\E k \in 1..Len(retorno.sugestoes_texto) :
                       retorno.sugestoes_texto[k] = SugestaoHistoricoPositivo)
                  <=> (\E k \in 1..Len(retorno.pareceres_similares) :
                          retorno.pareceres_similares[k].tipo_parecer = "Parecer Favorável")
        /\ ListaArmazenada = <<>> =>
               /\ "erro" \notin DOMAIN retorno
               /\ retorno.total_encontrados = 0
               /\ retorno.pareceres_similares = <<>>
               /\ retorno.padroes_identificados = <<>>
               /\ retorno.sugestoes_texto = <<>>

\* six stored entries match "Cloud", five are returned, and the Favorável
\* one among the six is the one left out
C18_Witness ==
    /\ InsumosDoHistorico
    /\ chamada.tipo_servico = PyStr(<<"C", "l", "o", "u", "d">>)
    /\ Len(Casam) = 6
    /\ retorno.total_encontrados = 5
    /\ Casam[6].tipo_parecer = "Parecer Favorável"
    /\ retorno.sugestoes_texto = <<>>

(***************************************************************************)
(* Properties of capturar_vencimento (checked under SpecConsulta).         *)
(***************************************************************************)
CapturouVencimento == chamada.ferramenta = "capturar_vencimento"

\* the date argument is a date string
DataPresente == "isoformat" \in DOMAIN chamada.data_vencimento

\* the days argument is an integer for which cond holds
DiasTais(cond(_)) ==
    /\ chamada.dias_ate_vencimento # PyNone
    /\ cond(chamada.dias_ate_vencimento.v)

\* C13: capturar_vencimento returns BLOQUEIO, with an alert, a required
\* action and dentro_prazo_2anos false, when the date is null; ALERTA with
\* dentro_prazo_2anos false when the date is present and the days exceed
\* 730; OK with dentro_prazo_2anos true and no alert when the date is
\* present and the days are at most 730 (730 is OK, 731 is ALERTA).
C13_ClassificaVencimento ==
    CapturouVencimento =>
        /\ chamada.data_vencimento = PyNone =>
               /\ retorno.estado = "returned"
               /\ retorno.status = "BLOQUEIO"
               /\ retorno.alerta # PyNone
               /\ retorno.acao_requerida # PyNone
               /\ retorno.dentro_prazo_2anos = FALSE
        /\ (DataPresente /\ DiasTais(LAMBDA n : n > 730)) =>
               /\ retorno.estado = "returned"
               /\ retorno.status = "ALERTA"
               /\ retorno.dentro_prazo_2anos = FALSE
        /\ (DataPresente /\ DiasTais(LAMBDA n : n <= 730)) =>
               /\ retorno.estado = "returned"
               /\ retorno.status = "OK"
               /\ retorno.dentro_prazo_2anos = TRUE
               /\ retorno.alerta = PyNone

\* a contract that expires in exactly 730 days was classified OK
C13_Witness ==
    /\ CapturouVencimento
    /\ DataPresente
    /\ chamada.dias_ate_vencimento = PyInt(730)
    /\ retorno.estado = "returned"
    /\ retorno.status = "OK"


(***************************************************************************)
(* Properties of the agent's session (checked under SpecAgente).           *)
(***************************************************************************)
\* the events of the session that are calls of tool f
ChamadasDe(f) == {k \in 1..Len(fluxo) : fluxo[k].chamada.ferramenta = f}

\* the contract record of the request's supplier has no expiration date
SemVencimentoNoContrato ==
    LET cnpj == SoDigitos(Texto(requisicao.cnpj))
    IN  /\ cnpj \in DOMAIN ONETRUST_DATABASE
        /\ ONETRUST_DATABASE[cnpj].data_vencimento_contrato = PyNone

\* integrar_onetrust reported a null date and null days for that supplier
SemVencimentoReportado ==
    \A k \in ChamadasDe("integrar_onetrust") :
        (SemVencimentoNoContrato /\ fluxo[k].retorno.estado = "returned") =>
            /\ fluxo[k].retorno.encontrado
            /\ fluxo[k].retorno.data_vencimento_contrato = PyNone
            /\ fluxo[k].retorno.dias_ate_vencimento = PyNone

\* capturar_vencimento on a null date and null days returned BLOQUEIO
BloqueioRetornado ==
    \A k \in ChamadasDe("capturar_vencimento") :
        (/\ fluxo[k].chamada.data_vencimento = PyNone
         /\ fluxo[k].chamada.dias_ate_vencimento = PyNone) =>
            /\ fluxo[k].retorno.estado = "returned"
            /\ fluxo[k].retorno.status = "BLOQUEIO"

\* the events at which capturar_vencimento returned BLOQUEIO
Bloqueios ==
    {k \in ChamadasDe("capturar_vencimento") :
        fluxo[k].retorno.estado = "returned" /\ fluxo[k].retorno.status = "BLOQUEIO"}

\* no sugerir_parecer and no registrar_parecer follows a BLOQUEIO
NadaAposBloqueio ==
    \A k \in Bloqueios : \A j \in (k + 1)..Len(fluxo) :
        fluxo[j].chamada.ferramenta \notin {"sugerir_parecer", "registrar_parecer"}

\* C14: in a renewal for a supplier whose contract record has no
\* expiration date, integrar_onetrust reports a null date and null days,
\* capturar_vencimento on those values returns BLOQUEIO, and after that
\* BLOQUEIO the session calls neither sugerir_parecer nor
\* registrar_parecer.
C14_BloqueioInterrompeFluxo ==
    /\ SemVencimentoReportado
    /\ BloqueioRetornado
    /\ NadaAposBloqueio


\* the tool called by the step, "nenhuma" when the step is no call
FerramentaDoPasso ==
    IF Len(fluxo') = Len(fluxo) + 1 THEN fluxo'[Len(fluxo')].chamada.ferramenta ELSE "nenhuma"

\* C19: every call of integrar_onetrust, consultar_cmdb, carregar_insumos,
\* carregar_ressalvas, capturar_vencimento and sugerir_parecer, wherever it
\* stands in the session, leaves the contract store, the catalog store and
\* the history store as they were, and sugerir_parecer leaves the bundle it
\* was passed, the prior opinion's caveat list included, as it was.
C19_SemEfeitos ==
    [][/\ FerramentaDoPasso \in
              {"integrar_onetrust", "consultar_cmdb", "carregar_insumos",
               "carregar_ressalvas", "capturar_vencimento", "sugerir_parecer"}
          => UNCHANGED varsStores
       /\ FerramentaDoPasso = "sugerir_parecer"
          => dados_requisicao' = chamada'.dados_requisicao]_vars

\* the caveats carregar_ressalvas returned went into a bundle that
\* sugerir_parecer scored, adding a caveat of its own to its result; the
\* stores and the bundle are as before
C19_Witness ==
    /\ \E i \in ChamadasDe("carregar_ressalvas") :
          /\ fluxo[i].retorno.estado = "returned"
          /\ fluxo[i].retorno.tem_ressalvas
          /\ fluxo[i].retorno.ressalvas = RessalvasCloud
    /\ Len(fluxo) >= 2
    /\ fluxo[Len(fluxo)].chamada.ferramenta = "sugerir_parecer"
    /\ fluxo[Len(fluxo)].chamada.dados_requisicao.parecer_anterior.forma = "dict"
    /\ fluxo[Len(fluxo)].chamada.dados_requisicao.parecer_anterior.ressalvas = RessalvasCloud
    /\ Len(fluxo[Len(fluxo)].retorno.ressalvas) > Len(RessalvasCloud)
    /\ dados_requisicao = fluxo[Len(fluxo)].chamada.dados_requisicao
    /\ ONETRUST_DATABASE = Onetrust_Mock
    /\ CMDB_DATABASE = Cmdb_Mock
    /\ HISTORICO_PARECERES \in {Historico_Mock, Historico_Longo}


(***************************************************************************)
(* Properties of concurrent callers (checked under SpecConcorrente).       *)
(***************************************************************************)
\* the shared state before any call, as a sequential run sees it
AntesDeTudo ==
    [onetrust_repo |-> None, cmdb_repo |-> None, historico_repo |-> None,
     onetrust |-> Onetrust_Mock, cmdb |-> Cmdb_Mock, historico |-> Historico_Mock,
     res |-> [t \in Chamadores |-> Pendente]]

\* caller t's call run from start to end on the shared state e
Sozinha(t, e) ==
    LET c == threads[t].chamada
    IN  IF c.ferramenta = "integrar_onetrust"
        THEN LET r == integrar_onetrust(c.cnpj, e.onetrust_repo, USE_MOCK, e.onetrust,
                                        c.agora, "ausente")
             IN  [e EXCEPT !.onetrust_repo = r.cache, !.onetrust = r.store, !.res[t] = r.ret]
        ELSE IF c.ferramenta = "consultar_cmdb"
        THEN LET r == consultar_cmdb(c.api_id, e.cmdb_repo, USE_MOCK, e.cmdb, "ausente")
             IN  [e EXCEPT !.cmdb_repo = r.cache, !.cmdb = r.store, !.res[t] = r.ret]
        ELSE IF c.ferramenta = "carregar_insumos"
        THEN LET r == carregar_insumos(c.cnpj, c.tipo_servico, e.historico_repo, USE_MOCK,
                                       e.historico, "ausente")
             IN  [e EXCEPT !.historico_repo = r.cache, !.historico = r.store, !.res[t] = r.ret]
        ELSE IF c.ferramenta = "carregar_ressalvas"
        THEN LET r == carregar_ressalvas(c.cnpj, e.historico_repo, USE_MOCK, e.historico,
                                         "ausente")
             IN  [e EXCEPT !.historico_repo = r.cache, !.historico = r.store, !.res[t] = r.ret]
        ELSE [e EXCEPT !.res[t] = sugerir_parecer(c.dados_requisicao)]

\* the first k calls of the order ordem run one after another
RECURSIVE Sequencial(_, _)
Sequencial(ordem, k) ==
    IF k = 0 THEN AntesDeTudo ELSE Sozinha(ordem[k], Sequencial(ordem, k - 1))

\* the stores and the classes of the cached repositories are those of e
MesmoCompartilhado(e) ==
    /\ ONETRUST_DATABASE = e.onetrust
    /\ CMDB_DATABASE = e.cmdb
    /\ HISTORICO_PARECERES = e.historico
    /\ onetrust_repo.classe = e.onetrust_repo
    /\ cmdb_repo.classe = e.cmdb_repo
    /\ historico_repo.classe = e.historico_repo

Terminaram == \A t \in Chamadores : threads[t].pc = "fim"

\* C20: callers that run the lookup tools and sugerir_parecer at the same
\* time, the first use of the repository globals included, each get the
\* result of some one-after-another run of the same calls, and at no point
\* are the stores and the cached repositories in a state that no
\* one-after-another run passes through.
C20_ComoEmSequencia ==
    /\ \E ordem \in Permutations(Chamadores), k \in 0..NumChamadores :
           MesmoCompartilhado(Sequencial(ordem, k))
    /\ Terminaram =>
           \E ordem \in Permutations(Chamadores) :
               LET e == Sequencial(ordem, NumChamadores)
               IN  /\ MesmoCompartilhado(e)
                   /\ \A t \in Chamadores : threads[t].resultado = e.res[t]

\* both callers found the global empty and each created and used an
\* instance of its own
C20_Witness ==
    /\ Terminaram
    /\ \A t \in {1, 2} :
           /\ threads[t].chamada.ferramenta = "integrar_onetrust"
           /\ threads[t].repo = Instancia("MockOneTrustRepository", t)
           /\ threads[t].resultado.estado = "returned"
           /\ threads[t].resultado.encontrado
    /\ threads[1].chamada # threads[2].chamada

(***************************************************************************)
(* The four repository factories (adapters/__init__.py) called one after   *)
(* another in one process, with USE_MOCK changed in the environment        *)
(* between calls.  A cached repository is held with the number of the call *)
(* that created it (inst), so that two instances of one class are told     *)
(* apart.                                                                  *)
(***************************************************************************)
Fabricas ==
    {"get_onetrust_repository", "get_cmdb_repository", "get_historico_repository",
     "get_parecer_repository"}

\* the module global a factory works on
GlobalDe(f) ==
    CASE f = "get_onetrust_repository" -> onetrust_repo
      [] f = "get_cmdb_repository" -> cmdb_repo
      [] f = "get_historico_repository" -> historico_repo
      [] f = "get_parecer_repository" -> parecer_repo

\* the factory f run on a global holding an instance of classe (or None)
ChamadaDaFabrica(f, classe, env) ==
    CASE f = "get_onetrust_repository" -> get_onetrust_repository(classe, env)
      [] f = "get_cmdb_repository" -> get_cmdb_repository(classe, env)
      [] f = "get_historico_repository" -> get_historico_repository(classe, env)
      [] f = "get_parecer_repository" -> get_parecer_repository(classe, env)

InitFabricas ==
    /\ SugerirParado
    /\ requisicao = [tipo_requisicao |-> None]
    /\ fluxo = <<>>
    /\ threads = <<>>
    /\ handler = SemHandler
    /\ dados_completos = <<>>
    /\ registro = Pendente
    /\ save_calls = <<>>
    /\ USE_MOCK \in UseMockValores
    /\ ONETRUST_DATABASE = Onetrust_Mock
    /\ CMDB_DATABASE = Cmdb_Mock
    /\ HISTORICO_PARECERES = Historico_Mock
    /\ onetrust_repo = SemInstancia
    /\ cmdb_repo = SemInstancia
    /\ historico_repo = SemInstancia
    /\ parecer_repo = SemInstancia
    /\ chamada = [ferramenta |-> "nenhuma"]
    /\ retorno = Pendente
    /\ repo_args = <<>>

ForaDasFabricas ==
    <<ultimo_parecer, dados_requisicao, resultado, dados_completos, registro,
      save_calls, repo_args, requisicao, threads, handler>>

\* os.environ["USE_MOCK"] is set to another value, or the variable is unset
DefineUseMock ==
    /\ Len(fluxo) < MaxChamadas
    /\ USE_MOCK' \in UseMockValores \ {USE_MOCK}
    /\ UNCHANGED <<onetrust_repo, cmdb_repo, historico_repo, parecer_repo,
                   chamada, retorno, fluxo>>
    /\ UNCHANGED varsStores
    /\ UNCHANGED ForaDasFabricas

\* one call of the factory f
ChamaFabrica(f) ==
    /\ Len(fluxo) < MaxChamadas
    /\ LET global == GlobalDe(f)
           r == ChamadaDaFabrica(f, global.classe, USE_MOCK)
           depois == IF r.raised \/ global.classe # None THEN global
                     ELSE Instancia(r.cache, Len(fluxo) + 1)
       IN  /\ onetrust_repo' = IF f = "get_onetrust_repository" THEN depois ELSE onetrust_repo
           /\ cmdb_repo' = IF f = "get_cmdb_repository" THEN depois ELSE cmdb_repo
           /\ historico_repo' =
                  IF f = "get_historico_repository" THEN depois ELSE historico_repo
           /\ parecer_repo' = IF f = "get_parecer_repository" THEN depois ELSE parecer_repo
           /\ chamada' = [ferramenta |-> f, USE_MOCK |-> USE_MOCK]
           /\ retorno' = IF r.raised THEN Raised(r.excecao)
                         ELSE [estado |-> "returned", repo |-> depois]
    /\ Registra
    /\ UNCHANGED USE_MOCK
    /\ UNCHANGED varsStores
    /\ UNCHANGED ForaDasFabricas

NextFabricas ==
    \/ DefineUseMock
    \/ \E f \in Fabricas : ChamaFabrica(f)

SpecFabricas == InitFabricas /\ [][NextFabricas]_vars

(***************************************************************************)
(* Upload validation of the partner-evaluation service                     *)
(* (genaigke-sdlc-aarq-ans-avaliacao-parceiro, src/utils/security.py).     *)
(* Contents are byte strings held as [texto, enchimento]: the sequence of  *)
(* characters texto followed by enchimento filler bytes "a"; the element   *)
(* "xFF" is a byte that is not valid UTF-8.                                *)
(***************************************************************************)
\* int(os.getenv("MAX_FILE_SIZE", str(10 * 1024 * 1024))), variable unset
MAX_FILE_SIZE == 10485760

ALLOWED_MIME_TYPES ==
    {"application/pdf",
     "application/vnd.openxmlformats-officedocument.spreadsheetml.sheet",
     "text/plain", "image/png", "image/jpeg", "image/jpg", "image/webp", "image/gif"}

ALLOWED_EXTENSIONS ==
    {<<"p", "d", "f">>, <<"x", "l", "s", "x">>, <<"t", "x", "t">>, <<"p", "n", "g">>,
     <<"j", "p", "g">>, <<"j", "p", "e", "g">>, <<"w", "e", "b", "p">>, <<"g", "i", "f">>}

SUSPICIOUS_PATTERNS ==
    <<<<"i", "g", "n", "o", "r", "e", " ", "p", "r", "e", "v", "i", "o", "u", "s", " ", "i", "n", "s", "t", "r", "u", "c", "t", "i", "o", "n", "s">>,
      <<"i", "g", "n", "o", "r", "e", " ", "a", "l", "l", " ", "p", "r", "e", "v", "i", "o", "u", "s">>,
      <<"d", "i", "s", "r", "e", "g", "a", "r", "d", " ", "p", "r", "e", "v", "i", "o", "u", "s">>,
      <<"s", "y", "s", "t", "e", "m", ":">>,
      <<"<", "s", "c", "r", "i", "p", "t", ">">>,
      <<"j", "a", "v", "a", "s", "c", "r", "i", "p", "t", ":">>>>

Bytes(texto, enchimento) == [texto |-> texto, enchimento |-> enchimento]

\* len(content)
Tamanho(content) == Len(content.texto) + content.enchimento

\* content.decode('utf-8', errors='ignore'): invalid bytes are dropped
Decode(content) == SelectSeq(content.texto, LAMBDA b : b # "xFF")

\* filename.lower().split('.')[-1]
Extensao(filename) ==
    LET s == LowerSeq(filename)
        pontos == {k \in 1..Len(s) : s[k] = "."}
        ultimo == IF pontos = {} THEN 0
                  ELSE CHOOSE k \in pontos : \A j \in pontos : j <= k
    IN  SubSeq(s, ultimo + 1, Len(s))

\* raise HTTPException(status_code=...)
HTTPException(status_code) ==
    [estado |-> "raised", excecao |-> "HTTPException", status_code |-> status_code]

\* the function falls off its end
RetornaNone == [estado |-> "returned", valor |-> PyNone]

\* the exception classes an "except Exception" clause catches;
\* HTTPException derives from Exception
SubclassesDeException == {"HTTPException", "UnicodeDecodeError", "ValueError"}

\* the body of the try block (lines 82-90)
FiltroDeConteudo(content) ==
    LET text_lower == LowerSeq(Decode(content))
    IN  IF \E k \in 1..Len(SUSPICIOUS_PATTERNS) : Contido(SUSPICIOUS_PATTERNS[k], text_lower)
        THEN HTTPException(400)
        ELSE RetornaNone

\* try: ... except Exception: pass
TryExceptPass(corpo) ==
    IF corpo.estado = "raised" /\ corpo.excecao \in SubclassesDeException
    THEN RetornaNone
    ELSE corpo

\* validate_file_security(file, content)
validate_file_security(file, content) ==
    LET file_size == Tamanho(content)
    IN  IF file_size > MAX_FILE_SIZE
        THEN HTTPException(413)
        ELSE IF /\ file.content_type # None
                /\ file.content_type \notin ALLOWED_MIME_TYPES
                /\ file.filename # PyNone
                /\ file.filename.chars # <<>>
                /\ Extensao(file.filename.chars) \notin ALLOWED_EXTENSIONS
        THEN HTTPException(415)
        ELSE IF file_size = 0
        THEN HTTPException(400)
        ELSE IF file.content_type = "text/plain"
        THEN TryExceptPass(FiltroDeConteudo(content))
        ELSE RetornaNone

\* str.upper(), character by character
EmMaiusculas(s) ==
    [k \in 1..Len(s) |->
        IF \E i \in 1..Len(Minusculas) : Minusculas[i] = s[k]
        THEN Maiusculas[CHOOSE i \in 1..Len(Minusculas) : Minusculas[i] = s[k]]
        ELSE s[k]]

\* the uploads of the model: file names with and without an allowed
\* extension, declared types inside and outside the allowed set
Filenames ==
    {PyNone, PyStr(<<"s", "u", "s", "p", "i", "c", "i", "o", "u", "s", ".", "t", "x", "t">>), PyStr(<<"m", "a", "l", "i", "c", "i", "o", "u", "s", ".", "e", "x", "e">>), PyStr(<<"N", "O", "T", "A", "S", ".", "T", "X", "T">>)}

ContentTypes ==
    {None, "text/plain", "application/pdf", "application/x-msdownload",
     "text/plain; charset=utf-8"}

\* the contents of the model: empty, harmless, each suspicious pattern as
\* listed, in upper case and with an undecodable byte inside it, the
\* suspicious sentence of the unit test, and a content above the size limit
ConteudoDoTeste ==
    Bytes(SUSPICIOUS_PATTERNS[1] \o <<" ", "a", "n", "d", " ", "d", "o", " ", "s", "o", "m", "e", "t", "h", "i", "n", "g", " ", "e", "l", "s", "e">>, 0)

Conteudos ==
    {Bytes(<<>>, 0), Bytes(<<"o", "l", "a">>, 0), ConteudoDoTeste,
     Bytes(SUSPICIOUS_PATTERNS[1], MAX_FILE_SIZE)}
    \cup {Bytes(SUSPICIOUS_PATTERNS[k], 0) : k \in 1..Len(SUSPICIOUS_PATTERNS)}
    \cup {Bytes(EmMaiusculas(SUSPICIOUS_PATTERNS[k]), 0) : k \in 1..Len(SUSPICIOUS_PATTERNS)}
    \cup {Bytes(Insere(SUSPICIOUS_PATTERNS[k], 3, <<"xFF">>), 0) :
            k \in 1..Len(SUSPICIOUS_PATTERNS)}

InitUpload ==
    /\ SugerirParado
    /\ RegistrarParado
    /\ ConsultaParada
    /\ AgenteParado

\* one upload is validated
ValidateFileSecurity ==
    /\ chamada.ferramenta = "nenhuma"
    /\ \E filename \in Filenames, content_type \in ContentTypes, content \in Conteudos :
          LET file == [filename |-> filename, content_type |-> content_type]
          IN  /\ chamada' = [ferramenta |-> "validate_file_security", file |-> file,
                             content |-> content]
              /\ retorno' = validate_file_security(file, content)
    /\ UNCHANGED <<ONETRUST_DATABASE, CMDB_DATABASE, HISTORICO_PARECERES,
                   onetrust_repo, cmdb_repo, historico_repo, repo_args>>
    /\ UNCHANGED ForaDaConsulta
    /\ UNCHANGED varsAgente
    /\ UNCHANGED <<threads, handler>>

NextUpload == ValidateFileSecurity

SpecUpload == InitUpload /\ [][NextUpload]_vars

(***************************************************************************)
(* Properties of the upload validation (checked under SpecUpload).         *)
(***************************************************************************)
\* a text/plain upload was validated
ValidouTextoPlano ==
    /\ chamada.ferramenta = "validate_file_security"
    /\ chamada.file.content_type = "text/plain"

\* its content, decoded and lower-cased, contains a suspicious pattern
ConteudoSuspeito ==
    \E k \in 1..Len(SUSPICIOUS_PATTERNS) :
        Contido(SUSPICIOUS_PATTERNS[k], LowerSeq(Decode(chamada.content)))

\* C23: validate_file_security rejects every text/plain upload whose
\* content contains one of the suspicious patterns, in any letter case, by
\* raising an HTTP error with status 400 to its caller.
C23_RejeitaInjecao ==
    (ValidouTextoPlano /\ ConteudoSuspeito) =>
        /\ retorno.estado = "raised"
        /\ retorno.excecao = "HTTPException"
        /\ retorno.status_code = 400

(***************************************************************************)
(* ThoughtSignatureHandler (reasoning_handler.py): one handler, its chat    *)
(* session and one execute_reasoning_turn.  What the language model        *)
(* answers to each message is its own choice.  handler holds the object's  *)
(* chat_session and the locals of the turn: response, iteration, the       *)
(* number of messages sent and of tools executed, the last function        *)
(* response sent, and the outcome of the turn.                             *)
(***************************************************************************)
\* max_iterations = 10
max_iterations == 10

\* the parts of a response's content
ParteTexto(text) == [function_call |-> PyNone, text |-> text]
ParteChamada(name) == [function_call |-> [tipo |-> "FunctionCall", name |-> name]]

\* a response of the model: its candidates, and its .text
Resposta(candidates, text) == [candidates |-> candidates, text |-> text]

\* what the model may answer: text only, content without parts, a call of
\* a tool that returns, of a tool that raises, of a tool the handler does
\* not have, text followed by two calls, or no candidate at all
Respostas ==
    {Resposta(<<[parts |-> <<ParteTexto("Parecer final")>>]>>, "Parecer final"),
     Resposta(<<[parts |-> <<>>]>>, ""),
     Resposta(<<[parts |-> <<ParteChamada("consultar_cmdb")>>]>>, "chamando consultar_cmdb"),
     Resposta(<<[parts |-> <<ParteChamada("sugerir_parecer")>>]>>, "chamando sugerir_parecer"),
     Resposta(<<[parts |-> <<ParteChamada("enviar_email")>>]>>, "chamando enviar_email"),
     Resposta(<<[parts |-> <<ParteTexto("Vou consultar."), ParteChamada("consultar_cmdb"),
                             ParteChamada("sugerir_parecer")>>]>>, "Vou consultar."),
     Resposta(<<>>, "")}

\* self.tools: the tools by name, here with what a call of each does
Tools == [consultar_cmdb |-> "retorna", sugerir_parecer |-> "levanta"]

\* hasattr(part, 'function_call') and part.function_call
TemChamada(part) == part.function_call # PyNone

\* the function-call parts of a content, in order
PartesComChamada(parts) == SelectSeq(parts, TemChamada)

\* _execute_tool aborting on a tool that raises
execute_tool_Propaga(tools, function_name) ==
    IF function_name \notin DOMAIN tools
    THEN [estado |-> "returned", valor |-> [error |-> <<"Function not found", function_name>>]]
    ELSE IF tools[function_name] = "levanta"
    THEN Raised("AttributeError")
    ELSE [estado |-> "returned", valor |-> [encontrado |-> TRUE]]

\* _execute_tool(function_name, args)
execute_tool(tools, function_name) ==
    IF function_name \notin DOMAIN tools
    THEN [estado |-> "returned", valor |-> [error |-> <<"Function not found", function_name>>]]
    ELSE IF tools[function_name] = "levanta"
    THEN [estado |-> "returned", valor |-> [error |-> <<"Tool execution failed", function_name>>]]
    ELSE [estado |-> "returned", valor |-> [encontrado |-> TRUE]]

\* return <text>
RetornaTexto(text) == [estado |-> "returned", valor |-> text]

\* ThoughtSignatureHandler(model, tools)
HandlerNovo ==
    [pc |-> "inicio", chat_session |-> None, response |-> PyNone, iteration |-> 0,
     enviadas |-> 0, executadas |-> 0, enviado |-> PyNone, resultado |-> Pendente]

InitRaciocinio ==
    /\ SugerirParado
    /\ RegistrarParado
    /\ ConsultaParada
    /\ requisicao = [tipo_requisicao |-> None]
    /\ fluxo = <<>>
    /\ threads = <<>>
    /\ handler = HandlerNovo

ForaDoHandler ==
    <<ultimo_parecer, dados_requisicao, resultado, dados_completos, registro,
      USE_MOCK, parecer_repo, save_calls, ONETRUST_DATABASE, CMDB_DATABASE,
      HISTORICO_PARECERES, onetrust_repo, cmdb_repo, historico_repo, chamada, retorno,
      repo_args, requisicao, fluxo, threads>>

\* start_session()
StartSession ==
    /\ handler.pc = "inicio"
    /\ handler.chat_session = None
    /\ handler' = [handler EXCEPT !.chat_session = "ChatSession"]
    /\ UNCHANGED ForaDoHandler

\* execute_reasoning_turn up to the loop: the session test and the first
\* message
ExecuteReasoningTurn ==
    /\ handler.pc = "inicio"
    /\ IF handler.chat_session = None
       THEN handler' = [handler EXCEPT !.pc = "fim", !.resultado = Raised("RuntimeError")]
       ELSE \E response \in Respostas :
               handler' = [handler EXCEPT !.pc = "laco", !.response = response,
                                          !.enviadas = 1, !.iteration = 0]
    /\ UNCHANGED ForaDoHandler

\* one pass of "while iteration < max_iterations"
Iteracao ==
    /\ handler.pc = "laco"
    /\ handler.iteration < max_iterations
    /\ IF handler.response.candidates = <<>>
       THEN \* candidates[0] raises IndexError
            handler' = [handler EXCEPT !.pc = "fim",
                           !.resultado = RetornaTexto("Erro: Resposta vazia do modelo.")]
       ELSE
         LET chamadas == PartesComChamada(handler.response.candidates[1].parts)
         IN  IF chamadas = <<>>
             THEN handler' = [handler EXCEPT !.pc = "fim",
                                 !.resultado = RetornaTexto(handler.response.text)]
             ELSE
               LET function_name == chamadas[1].function_call.name
                   tool_result == execute_tool(Tools, function_name)
               IN  IF tool_result.estado = "raised"
                   THEN \* except Exception: raise
                        handler' = [handler EXCEPT !.pc = "fim",
                                       !.executadas = @ + 1,
                                       !.resultado = tool_result]
                   ELSE \E response \in Respostas :
                           handler' = [handler EXCEPT
                               !.executadas = @ + 1,
                               !.enviado = [name |-> function_name,
                                            response |-> [result |-> tool_result.valor]],
                               !.enviadas = @ + 1,
                               !.response = response,
                               !.iteration = @ + 1]
    /\ UNCHANGED ForaDoHandler

\* the loop ended with iteration >= max_iterations
LimiteAtingido ==
    /\ handler.pc = "laco"
    /\ handler.iteration >= max_iterations
    /\ handler' = [handler EXCEPT !.pc = "fim",
                                  !.resultado = RetornaTexto(handler.response.text)]
    /\ UNCHANGED ForaDoHandler

NextRaciocinio ==
    \/ StartSession
    \/ ExecuteReasoningTurn
    \/ Iteracao
    \/ LimiteAtingido

\* the interpreter keeps running the turn while it has a next statement
SpecRaciocinio == InitRaciocinio /\ [][NextRaciocinio]_vars /\ WF_vars(NextRaciocinio)

(***************************************************************************)
(* Properties of the scoring engine within a session.                      *)
(***************************************************************************)
\* the positions of the session at which sugerir_parecer was called
Sugestoes == {k \in 1..Len(fluxo) : fluxo[k].chamada.ferramenta = "sugerir_parecer"}

Alertas ==
    {k \in ChamadasDe("capturar_vencimento") :
        fluxo[k].retorno.estado = "returned" /\ fluxo[k].retorno.status = "ALERTA"}

\* the calls of sugerir_parecer made after an ALERTA
SugestoesAposAlerta == {j \in Sugestoes : \E k \in Alertas : k < j}

\* C22: in a renewal in which capturar_vencimento returned ALERTA (more
\* than 730 days to expiration), the alert does not stop the flow: every
\* call of sugerir_parecer made after the alert returns one of the three
\* opinion types, and what it returns is what the scoring rules give for
\* its bundle alone (that such a call is made is the reachable state
\* C22_Witness).
C22_AlertaNaoInterrompe ==
    \A j \in SugestoesAposAlerta :
        LET dados == fluxo[j].chamada.dados_requisicao
        IN  /\ fluxo[j].retorno.estado = "returned"
            /\ fluxo[j].retorno.parecer_sugerido \in TipoParecer
            /\ fluxo[j].retorno = Decisao(dados, Acumulado(dados))

\* the contract expiring in 899 days was looked up, classified ALERTA, and
\* the request was scored after that
C22_Witness ==
    /\ Len(fluxo) = 3
    /\ fluxo[1].chamada.ferramenta = "integrar_onetrust"
    /\ fluxo[2].chamada.ferramenta = "capturar_vencimento"
    /\ fluxo[2].chamada.dias_ate_vencimento = PyInt(899)
    /\ 2 \in Alertas
    /\ SugestoesAposAlerta = {3}
    /\ fluxo[3].retorno.estado = "returned"
    /\ fluxo[3].retorno.parecer_sugerido \in TipoParecer

(***************************************************************************)
(* Further properties of the scoring engine (checked under SpecSugerir).   *)
(***************************************************************************)
\* the caveats rules 1 to 5 collected for the bundle that was scored
RessalvasAcumuladas == Acumulado(dados_requisicao).ressalvas

\* C24: every result classified 'Parecer Favorável com Ressalvas' or
\* 'Parecer Desfavorável' has a non-empty ressalvas list: when rules 1-5
\* collected no caveat, exactly one generic caveat is returned (the
\* monitor-evolution one for Favorável com Ressalvas, the additional-review
\* one for Desfavorável); when a caveat was collected, or the result is
\* 'Parecer Favorável', the list is the collected one with nothing added.
C24_RessalvaGenerica ==
    Retornou =>
        /\ resultado.parecer_sugerido # "Parecer Favorável" => resultado.ressalvas # <<>>
        /\ (/\ resultado.parecer_sugerido = "Parecer Favorável com Ressalvas"
            /\ RessalvasAcumuladas = <<>>) => resultado.ressalvas = <<RessalvaMonitorar>>
        /\ (/\ resultado.parecer_sugerido = "Parecer Desfavorável"
            /\ RessalvasAcumuladas = <<>>) => resultado.ressalvas = <<RessalvaAnaliseAdicional>>
        /\ RessalvasAcumuladas # <<>> => resultado.ressalvas = RessalvasAcumuladas
        /\ resultado.parecer_sugerido = "Parecer Favorável"
           => resultado.ressalvas = RessalvasAcumuladas

\* an unfavourable result for which no rule collected a caveat
C24_Witness ==
    /\ Retornou
    /\ resultado.parecer_sugerido = "Parecer Desfavorável"
    /\ RessalvasAcumuladas = <<>>
    /\ resultado.ressalvas = <<RessalvaAnaliseAdicional>>

\* every form a prior opinion can take in a bundle
TodasAsFormas == UNION {FormasDe(p) : p \in {SemParecer} \cup ParecerAnteriores}

\* two outcomes agree in opinion type, score, caveats and applied criteria
MesmoParecer(a, b) ==
    /\ a.estado = b.estado
    /\ a.estado = "returned" =>
          /\ a.parecer_sugerido = b.parecer_sugerido
          /\ a.score_confianca = b.score_confianca
          /\ a.ressalvas = b.ressalvas
          /\ a.criterios_aplicados = b.criterios_aplicados

NotaSemHistorico == "Renovação sem histórico de parecer anterior"

\* C25: the prior opinion counts for renewals only: for a bundle whose
\* tipo_requisicao is not 'Renovação', any other parecer_anterior gives
\* the same opinion type, score, caveats and applied criteria; and a
\* renewal with no prior opinion gets the score and caveats of the same
\* bundle as a new contract, with the one extra note 'Renovação sem
\* histórico de parecer anterior' in its criteria.
C25_AnteriorSoEmRenovacao ==
    resultado # Pendente =>
        /\ dados_requisicao.tipo_requisicao # "Renovação" =>
              \A p \in TodasAsFormas :
                  MesmoParecer(resultado,
                               sugerir_parecer([dados_requisicao EXCEPT !.parecer_anterior = p]))
        /\ (/\ dados_requisicao.tipo_requisicao = "Renovação"
            /\ dados_requisicao.parecer_anterior = PaNone) =>
              LET nova == sugerir_parecer([dados_requisicao EXCEPT
                                               !.tipo_requisicao = "Nova Contratação"])
              IN  /\ Retornou
                  /\ resultado.parecer_sugerido = nova.parecer_sugerido
                  /\ resultado.score_confianca = nova.score_confianca
                  /\ resultado.ressalvas = nova.ressalvas
                  /\ resultado.criterios_aplicados =
                         <<NotaSemHistorico>> \o nova.criterios_aplicados

\* a new contract scored with an unfavourable prior opinion on record
C25_Witness ==
    /\ Retornou
    /\ dados_requisicao.tipo_requisicao = "Nova Contratação"
    /\ dados_requisicao.parecer_anterior = PaStr("Parecer Desfavorável")
    /\ resultado.criterios_aplicados = <<>>
    /\ resultado.score_confianca = 50

\* the labels of FluxoDados (models.py)
FluxoDados == {"Inbound", "Outbound", "Bidirecional"}

\* C26: the data-flow labels of the request model ('Inbound', 'Outbound',
\* 'Bidirecional') earn the same score as their upper-case spellings:
\* +0.10 for inbound and outbound, +0.15 for bidirectional.
C26_RotulosDoModelo ==
    (resultado # Pendente /\ dados_requisicao.fluxo_dados \in FluxoDados) =>
        LET maiusculo == sugerir_parecer([dados_requisicao EXCEPT !.fluxo_dados = Upper(@)])
        IN  /\ resultado.estado = maiusculo.estado
            /\ Retornou => /\ resultado.score_confianca = maiusculo.score_confianca
                           /\ resultado.parecer_sugerido = maiusculo.parecer_sugerido

(***************************************************************************)
(* Further properties of the registration (checked under SpecRegistrar).   *)
(***************************************************************************)
\* the call returned sucesso=True
RegistroComSucesso == registro.estado = "returned" /\ registro.sucesso

\* C27: on a successful registration the parecer_id returned to the caller
\* is the parecer_id of the record handed to the repository's save.
C27_IdDoRegistroSalvo ==
    RegistroComSucesso =>
        /\ save_calls # <<>>
        /\ registro.parecer_id = save_calls[Len(save_calls)].parecer_id

(***************************************************************************)
(* Registration and the lookups (checked under SpecAgente).                *)
(***************************************************************************)
\* the registrations of the session that returned sucesso=True
RegistrosComSucesso ==
    {k \in ChamadasDe("registrar_parecer") :
        fluxo[k].retorno.estado = "returned" /\ fluxo[k].retorno.sucesso}

\* events j < k are the same lookup for the tax ID registered in between
MesmaConsultaAntesEDepois(j, k) ==
    /\ j < k
    /\ fluxo[j].chamada.ferramenta \in
           {"carregar_ressalvas", "carregar_insumos", "integrar_onetrust"}
    /\ fluxo[k].chamada.ferramenta = fluxo[j].chamada.ferramenta
    /\ fluxo[k].chamada.cnpj = fluxo[j].chamada.cnpj
    /\ \E r \in RegistrosComSucesso :
          /\ j < r
          /\ r < k
          /\ CnpjClean(Texto(fluxo[r].chamada.dados_completos.cnpj))
                 = CnpjClean(fluxo[j].chamada.cnpj)

\* C28: a successful registrar_parecer for a tax ID does not change what
\* carregar_ressalvas, carregar_insumos and integrar_onetrust return for
\* that tax ID: the same lookup made before and after the registration
\* returns the same result, and the history store is as it was.
C28_RegistroNaoAlteraConsultas ==
    /\ \A j \in 1..Len(fluxo), k \in 1..Len(fluxo) :
          MesmaConsultaAntesEDepois(j, k) => fluxo[j].retorno = fluxo[k].retorno
    /\ HISTORICO_PARECERES \in {Historico_Mock, Historico_Longo}

\* the prior opinion of a supplier was loaded, an opinion was registered
\* for that supplier, and the prior opinion was loaded again
C28_Witness ==
    /\ Len(fluxo) = 3
    /\ fluxo[1].chamada.ferramenta = "carregar_ressalvas"
    /\ fluxo[1].retorno.estado = "returned"
    /\ fluxo[1].retorno.parecer_anterior_encontrado
    /\ MesmaConsultaAntesEDepois(1, 3)

(***************************************************************************)
(* Properties of the repository factories (checked under SpecFabricas).    *)
(***************************************************************************)
\* the calls of factory f before event k that returned a repository
SucessosAntes(f, k) ==
    {j \in 1..(k - 1) : fluxo[j].chamada.ferramenta = f /\ fluxo[j].retorno.estado = "returned"}

\* USE_MOCK as the factory reads it at event k: default "true", lower-cased
UseMockLido(k) ==
    Lower(IF fluxo[k].chamada.USE_MOCK = None THEN "true" ELSE fluxo[k].chamada.USE_MOCK)

\* the class each factory instantiates
ClasseDaFabrica(f) ==
    CASE f = "get_onetrust_repository" -> "MockOneTrustRepository"
      [] f = "get_cmdb_repository" -> "MockCMDBRepository"
      [] f = "get_historico_repository" -> "MockHistoricoRepository"
      [] f = "get_parecer_repository" -> "MockParecerRepository"

\* C29: each of the four factories is a lazy singleton: once a call of it
\* has returned a repository, every later call returns that same instance
\* whatever USE_MOCK is by then; a call made before any success, while
\* USE_MOCK does not read as 'true', raises NotImplementedError and leaves
\* the global empty, so that a later call with USE_MOCK 'true' succeeds;
\* and each global is set by its own factory's first success alone.
C29_SingletonPreguicoso ==
    /\ \A k \in 1..Len(fluxo) :
          LET f == fluxo[k].chamada.ferramenta
              antes == SucessosAntes(f, k)
          IN  /\ antes # {} =>
                    /\ fluxo[k].retorno.estado = "returned"
                    /\ \A j \in antes : fluxo[k].retorno.repo = fluxo[j].retorno.repo
              /\ (antes = {} /\ UseMockLido(k) # "true") =>
                    fluxo[k].retorno = Raised("NotImplementedError")
              /\ (antes = {} /\ UseMockLido(k) = "true") =>
                    /\ fluxo[k].retorno.estado = "returned"
                    /\ fluxo[k].retorno.repo = Instancia(ClasseDaFabrica(f), k)
    /\ \A f \in Fabricas :
          LET sucessos == SucessosAntes(f, Len(fluxo) + 1)
          IN  GlobalDe(f) =
                  IF sucessos = {} THEN SemInstancia
                  ELSE Instancia(ClasseDaFabrica(f), CHOOSE j \in sucessos : \A i \in sucessos : j <= i)

\* a factory raised while USE_MOCK was 'false', succeeded once USE_MOCK
\* was 'true', and returned the same instance after USE_MOCK went back to
\* 'false'
C29_Witness ==
    /\ Len(fluxo) = 3
    /\ \A k \in 1..3 : fluxo[k].chamada.ferramenta = "get_cmdb_repository"
    /\ fluxo[1].chamada.USE_MOCK = "false"
    /\ fluxo[1].retorno = Raised("NotImplementedError")
    /\ fluxo[2].chamada.USE_MOCK = "true"
    /\ fluxo[2].retorno.estado = "returned"
    /\ fluxo[3].chamada.USE_MOCK = "false"
    /\ fluxo[3].retorno = fluxo[2].retorno

(***************************************************************************)
(* Properties of the reasoning turn (checked under SpecRaciocinio).        *)
(***************************************************************************)
\* execute_reasoning_turn has returned or raised
Terminou == handler.pc = "fim"

SessaoIniciada == handler.chat_session # None

\* the response has content and no function-call part
SemChamadas(response) ==
    /\ response.candidates # <<>>
    /\ PartesComChamada(response.candidates[1].parts) = <<>>

\* the last function response sent carries an error value when the tool
\* asked for is unknown to the handler or raised
ErroReportado ==
    (/\ handler.enviado # PyNone
     /\ \/ handler.enviado.name \notin DOMAIN Tools
        \/ Tools[handler.enviado.name] = "levanta")
    => "error" \in DOMAIN handler.enviado.response.result

TurnoLimitado ==
    /\ handler.iteration <= max_iterations
    /\ handler.executadas = handler.iteration
    /\ handler.enviadas <= handler.executadas + 1
    /\ ErroReportado
    /\ Terminou =>
          IF ~SessaoIniciada
          THEN /\ handler.resultado = Raised("RuntimeError")
               /\ handler.enviadas = 0
               /\ handler.executadas = 0
          ELSE \/ /\ handler.iteration < max_iterations
                  /\ SemChamadas(handler.response)
                  /\ handler.resultado = RetornaTexto(handler.response.text)
               \/ /\ handler.iteration < max_iterations
                  /\ handler.response.candidates = <<>>
                  /\ handler.resultado = RetornaTexto("Erro: Resposta vazia do modelo.")
               \/ /\ handler.iteration = max_iterations
                  /\ handler.resultado = RetornaTexto(handler.response.text)

=============================================================================
